---- MODULE Spec2Model ----
(***************************************************************************)
(* Payment reconciliation of Open-Aiartools: the verify-payment route, the *)
(* Creem webhook route, the provider factory and the payment providers,    *)
(* over a database of users and userActivities (the credit ledger).        *)
(*                                                                         *)
(* Strings that the code inspects character by character (session ids,     *)
(* the success-url placeholder, SQL LIKE patterns) are sequences of        *)
(* one-character strings.  Dates are day numbers of a non-leap year        *)
(* (0 = 1 January); an optional value is <<>> (null) or <<v>>.             *)
(***************************************************************************)
EXTENDS Integers, Sequences, FiniteSets, Bags, TLC

VARIABLES
    users,        \* users table: id -> row
    activities,   \* userActivities table (append-only), a sequence of rows
    providers,    \* PaymentFactory.providers: provider type -> instance cached
    env,          \* process.env of the deployment (fixed after start)
    now,          \* the clock: new Date()
    inflight,     \* bag of verify-payment requests suspended at an await
    lastResp,     \* the response of the request that completed last
    verifiedId,   \* history: for each ledger row, the payment id that was verified
    call,         \* the last call made to the payment library itself, and its outcome
    failures      \* the database statements that failed so far

vars ==
    <<users, activities, providers, env, now, inflight, lastResp, verifiedId, call,
      failures>>

----------------------------------------------------------------------------
(* Bounds of the model *)

\* requests that may be suspended at an await at the same time
MaxInflight == 2

\* rows the ledger may hold (started reconciliations included)
MaxLedger == 2

\* database statements that may fail
MaxFailures == 1
MaxVerifications == 2

\* the instants the clock takes: 1 January and 1 February
Instants == {0, 31}

----------------------------------------------------------------------------
(* Strings *)

Null == <<"<null>">>

IsNull(s) == s = Null

\* '{CHECKOUT_SESSION_ID}'
PLACEHOLDER ==
    <<"{","C","H","E","C","K","O","U","T","_","S","E","S","S","I","O","N","_","I","D","}">>

\* 'mock_session_'
MOCK_PREFIX == <<"m","o","c","k","_","s","e","s","s","i","o","n","_">>

\* String.prototype.startsWith
StartsWith(s, p) ==
    /\ Len(s) >= Len(p)
    /\ SubSeq(s, 1, Len(p)) = p

\* String.prototype.includes
Includes(s, sub) ==
    \E i \in 1..(Len(s) - Len(sub) + 1) : SubSeq(s, i, i + Len(sub) - 1) = sub

\* `${x}` in a template literal: null prints as the four letters null
Template(s) == IF IsNull(s) THEN <<"n","u","l","l">> ELSE s

\* SQL LIKE: % matches any run of characters, _ matches any one character
RECURSIVE Like(_, _)
Like(text, pat) ==
    IF pat = <<>> THEN text = <<>>
    ELSE IF Head(pat) = "%"
         THEN \/ Like(text, Tail(pat))
              \/ (text # <<>> /\ Like(Tail(text), pat))
         ELSE /\ text # <<>>
              /\ (Head(pat) = "_" \/ Head(pat) = Head(text))
              /\ Like(Tail(text), Tail(pat))

\* session ids issued by the Stripe backend, and one issued by the mock backend
CS1 == <<"c","s","_","1">>
CS2 == <<"c","s","_","2">>
CS3 == <<"c","s","_","3">>
CS4 == <<"c","s","_","4">>
CS5 == <<"c","s","_","5">>
MOCK1 == MOCK_PREFIX \o <<"1">>

----------------------------------------------------------------------------
(* lib/payments/config.ts *)

PRO_MONTHLY_CREDITS == 800

PAYMENT_PLANS ==
    [ pro         |-> [id |-> "pro", price |-> 599,
                       credits |-> PRO_MONTHLY_CREDITS, type |-> "subscription"],
      credits_100 |-> [id |-> "credits_100", price |-> 99,
                       credits |-> 100, type |-> "one_time"],
      credits_500 |-> [id |-> "credits_500", price |-> 399,
                       credits |-> 500, type |-> "one_time"] ]

\* a provider type that was not given (undefined)
NoType == "undefined"

\* Array.prototype.includes
InSeq(x, s) == \E i \in 1..Len(s) : s[i] = x

\* the deployments considered: ENABLED_PAYMENT_PROVIDERS, DEFAULT_PAYMENT_PROVIDER
\* and whether STRIPE_SECRET_KEY and STRIPE_WEBHOOK_SECRET are both set
Envs ==
    { [enabled |-> <<"stripe", "creem", "mock">>, defaultProvider |-> "stripe",
       stripeKeys |-> TRUE],
      [enabled |-> <<"creem", "mock">>, defaultProvider |-> "creem",
       stripeKeys |-> FALSE] }

\* the deployments in which the payment library is called directly: the default
\* provider first in the list, later in the list, or not in the list; the list
\* with or without the mock provider; and ENABLED_PAYMENT_PROVIDERS set to the
\* empty text, which split(',') turns into one empty entry
Deployments ==
    Envs \cup
    { [enabled |-> <<"stripe">>, defaultProvider |-> "stripe", stripeKeys |-> FALSE],
      [enabled |-> <<"mock", "stripe">>, defaultProvider |-> "stripe",
       stripeKeys |-> TRUE],
      [enabled |-> <<"stripe", "mock">>, defaultProvider |-> "paypal",
       stripeKeys |-> FALSE],
      [enabled |-> <<"">>, defaultProvider |-> "stripe", stripeKeys |-> TRUE] }

\* isPaymentProviderEnabled that takes every provider for enabled
isPaymentProviderEnabled_Always(provider, e) == TRUE

isPaymentProviderEnabled(provider, e) == InSeq(provider, e.enabled)

\* getActivePaymentProvider without the test of the default provider: the
\* first enabled provider whatever the default is
getActivePaymentProvider_FirstEnabled(e) ==
    IF Len(e.enabled) > 0 /\ e.enabled[1] # "" THEN e.enabled[1]
    ELSE "mock"

\* enabledProviders[0] || 'mock': an empty first entry is falsy
getActivePaymentProvider(e) ==
    IF InSeq(e.defaultProvider, e.enabled) THEN e.defaultProvider
    ELSE IF Len(e.enabled) > 0 /\ e.enabled[1] # "" THEN e.enabled[1]
    ELSE "mock"

----------------------------------------------------------------------------
(* lib/payments/factory.ts (held in src/lib/db.ts) *)

\* the keys of PAYMENT_PROVIDERS, in the order of the object literal
PAYMENT_PROVIDERS == <<"stripe", "mock", "alipay", "wechat", "paypal">>

\* the registry entries whose constructor function throws
NotImplemented == {"alipay", "wechat", "paypal"}

\* isConfigured() of a newly constructed provider of a registered type
IsConfigured(type, e) ==
    CASE type = "stripe" -> e.stripeKeys
      [] type = "mock"   -> TRUE
      [] OTHER           -> FALSE

\* the instance cache maps provider types to instances, which are told apart
\* by their names; new Map()
NoProviders == <<>>

\* this.providers.set(type, provider), for the provider of the name
Cached(type, name, cache) == (type :> name) @@ cache

\* made: the provider types of which an instance was constructed on the way
Resolved(name, cache) ==
    [ok |-> TRUE, name |-> name, error |-> "", cache |-> cache, made |-> {},
     nested |-> 0]

Thrown(msg, cache) ==
    [ok |-> FALSE, name |-> "", error |-> msg, cache |-> cache, made |-> {},
     nested |-> 0]

\* const provider = createProvider() was run for the type before the outcome r
Made(type, r) == [r EXCEPT !.made = @ \cup {type}]

\* the outcome r is the one of a getProvider call made inside getProvider;
\* nested: how many such calls were made on the way
Nested(r) == [r EXCEPT !.nested = @ + 1]

\* const providerType = type || getActivePaymentProvider()
TargetType(type, e) == IF type = NoType THEN getActivePaymentProvider(e) ELSE type

\* getProvider whose fallback is this.getProvider(this.getProvider('mock').name):
\* the mock provider is resolved, and then resolved again by its name
getProvider_FallbackTwice(type, cache, e) ==
    LET providerType == TargetType(type, e)
        mock == IF ~isPaymentProviderEnabled("mock", e)
                    THEN Thrown("provider not enabled", cache)
                ELSE IF "mock" \in DOMAIN cache
                    THEN Nested(Resolved(cache["mock"], cache))
                ELSE Nested(Made("mock", Resolved("mock", Cached("mock", "mock", cache))))
    IN  IF ~isPaymentProviderEnabled(providerType, e)
            THEN Thrown("provider not enabled", cache)
        ELSE IF providerType \in DOMAIN cache
            THEN Resolved(cache[providerType], cache)
        ELSE IF ~InSeq(providerType, PAYMENT_PROVIDERS)
            THEN Thrown("provider not supported", cache)
        ELSE IF providerType \in NotImplemented
            THEN Thrown("provider not implemented", cache)
        ELSE IF ~IsConfigured(providerType, e)
            THEN Nested(Made(providerType, mock))
        ELSE Made(providerType,
                  Resolved(providerType, Cached(providerType, providerType, cache)))

\* getProvider that puts the mock provider it falls back to into the cache
\* under the type asked for
getProvider_CacheFallback(type, cache, e) ==
    LET providerType == TargetType(type, e)
        mock == IF ~isPaymentProviderEnabled("mock", e)
                    THEN Thrown("provider not enabled", cache)
                ELSE IF "mock" \in DOMAIN cache
                    THEN Resolved(cache["mock"], Cached(providerType, "mock", cache))
                ELSE Made("mock",
                          Resolved("mock",
                                   Cached(providerType, "mock",
                                          Cached("mock", "mock", cache))))
    IN  IF ~isPaymentProviderEnabled(providerType, e)
            THEN Thrown("provider not enabled", cache)
        ELSE IF providerType \in DOMAIN cache
            THEN Resolved(cache[providerType], cache)
        ELSE IF ~InSeq(providerType, PAYMENT_PROVIDERS)
            THEN Thrown("provider not supported", cache)
        ELSE IF providerType \in NotImplemented
            THEN Thrown("provider not implemented", cache)
        ELSE IF ~IsConfigured(providerType, e)
            THEN Nested(Made(providerType, mock))
        ELSE Made(providerType,
                  Resolved(providerType, Cached(providerType, providerType, cache)))

\* PaymentFactory.getProvider: the instance returned (by its name), or the error
\* thrown, and the instance cache afterwards
RECURSIVE getProvider(_, _, _)
getProvider(type, cache, e) ==
    LET providerType == TargetType(type, e)
    IN  IF ~isPaymentProviderEnabled(providerType, e)
            THEN Thrown("provider not enabled", cache)
        ELSE IF providerType \in DOMAIN cache
            THEN Resolved(cache[providerType], cache)
        ELSE IF ~InSeq(providerType, PAYMENT_PROVIDERS)
            THEN Thrown("provider not supported", cache)
        ELSE IF providerType \in NotImplemented
            THEN Thrown("provider not implemented", cache)
        ELSE IF ~IsConfigured(providerType, e)
            THEN Nested(Made(providerType, getProvider("mock", cache, e)))
        ELSE Made(providerType,
                  Resolved(providerType, Cached(providerType, providerType, cache)))

\* PaymentFactory.isProviderAvailable, on the outcome p of getProvider(type):
\* isConfigured() of the instance returned, false when getProvider throws
AvailableBy(p, e) ==
    [available |-> p.ok /\ IsConfigured(p.name, e), cache |-> p.cache]

isProviderAvailable(type, cache, e) == AvailableBy(getProvider(type, cache, e), e)

\* PaymentFactory.getAvailableProviders
getAvailableProviders(e) ==
    SelectSeq(PAYMENT_PROVIDERS, LAMBDA t : isPaymentProviderEnabled(t, e))

----------------------------------------------------------------------------
(* The payment backends (external): the Stripe checkout sessions that exist *)

StripeSessions ==
    [ id \in {CS1, CS2, CS3, CS4, CS5} |->
        CASE id = CS1 -> [paid |-> TRUE, userId |-> "u1", planId |-> "credits_100"]
          [] id = CS2 -> [paid |-> TRUE, userId |-> "u1", planId |-> "pro"]
          [] id = CS3 -> [paid |-> TRUE, userId |-> "u1", planId |-> "credits_500"]
          [] id = CS4 -> [paid |-> FALSE, userId |-> "u1", planId |-> "pro"]
          [] id = CS5 -> [paid |-> TRUE, userId |-> "u1", planId |-> "pro"] ]

Failed(sessionId, msg) ==
    [success |-> FALSE, sessionId |-> sessionId, userId |-> "", planId |-> "",
     credits |-> 0, planType |-> "", error |-> msg]

\* StripePaymentProvider.verifyPayment; the session metadata is the one
\* createCheckoutSession wrote with STRIPE_PRICE_ID set: userId, planId, the
\* plan's credits and type.
\* credits: 0 stands for undefined
StripeVerifyPayment(sessionId) ==
    IF sessionId \notin DOMAIN StripeSessions
        THEN Failed(sessionId, "No such checkout session")
    ELSE IF ~StripeSessions[sessionId].paid
        THEN Failed(sessionId, "payment not completed")
    ELSE LET s == StripeSessions[sessionId]
             plan == PAYMENT_PLANS[s.planId]
         IN  [success |-> TRUE, sessionId |-> sessionId, userId |-> s.userId,
              planId |-> s.planId, credits |-> plan.credits,
              planType |-> plan.type, error |-> ""]

\* verifyPayment of the mock provider without the test of the prefix
\* (lines 51-57 left out)
MockVerifyPayment_AnyId(sessionId) ==
    [success |-> TRUE, sessionId |-> sessionId, userId |-> "mock_user",
     planId |-> "pro", credits |-> 800, planType |-> "subscription",
     error |-> ""]

\* MockPaymentProvider.verifyPayment with extractMockSessionData
MockVerifyPayment(sessionId) ==
    IF ~StartsWith(sessionId, MOCK_PREFIX)
        THEN Failed(sessionId, "invalid mock session")
    ELSE [success |-> TRUE, sessionId |-> sessionId, userId |-> "mock_user",
          planId |-> "pro", credits |-> 800, planType |-> "subscription",
          error |-> ""]

\* PaymentService.verifyPayment: the result, or the error thrown, and the cache
ServiceVerifyPayment(sessionId, providerType, cache, e) ==
    LET p == getProvider(providerType, cache, e)
    IN  IF ~p.ok THEN [thrown |-> TRUE, error |-> p.error, cache |-> p.cache,
                       result |-> Failed(sessionId, p.error)]
        ELSE [thrown |-> FALSE, error |-> "", cache |-> p.cache,
              result |-> IF p.name = "stripe" THEN StripeVerifyPayment(sessionId)
                         ELSE MockVerifyPayment(sessionId)]

----------------------------------------------------------------------------
(* Checkout sessions: createCheckoutSession and verifyPayment of the providers *)

\* the characters of the account ids and of the plan ids, and of the word
\* that the id of a credit pack begins with
Spelling ==
    [ u1          |-> <<"u","1">>,
      u2          |-> <<"u","2">>,
      pro         |-> <<"p","r","o">>,
      credits_100 |-> <<"c","r","e","d","i","t","s","_","1","0","0">>,
      credits_500 |-> <<"c","r","e","d","i","t","s","_","5","0","0">>,
      gold        |-> <<"g","o","l","d">>,
      credits     |-> <<"c","r","e","d","i","t","s">> ]

\* the string of the characters; "?" for a text that is none of the names
Text(chars) ==
    IF \E n \in DOMAIN Spelling : Spelling[n] = chars
        THEN CHOOSE n \in DOMAIN Spelling : Spelling[n] = chars
    ELSE "?"

DIGITS == <<"0","1","2","3","4","5","6","7","8","9">>

IsDigit(c) == \E i \in 1..10 : DIGITS[i] = c

DigitValue(c) == (CHOOSE i \in 1..10 : DIGITS[i] = c) - 1

\* Number.prototype.toString of a natural number
RECURSIVE toString(_)
toString(n) ==
    IF n < 10 THEN <<DIGITS[n + 1]>>
    ELSE toString(n \div 10) \o <<DIGITS[(n % 10) + 1]>>

RECURSIVE ParseDigits(_, _)
ParseDigits(chars, acc) ==
    IF chars = <<>> \/ ~IsDigit(Head(chars)) THEN acc
    ELSE ParseDigits(Tail(chars), 10 * acc + DigitValue(Head(chars)))

\* parseInt of a text that has no sign and no leading blanks; 0 stands for NaN,
\* which the callers treat as they treat 0: as no value
parseInt(chars) == ParseDigits(chars, 0)

\* String.prototype.split with a separator of one character
RECURSIVE Split(_, _)
Split(chars, sep) ==
    IF \A i \in 1..Len(chars) : chars[i] # sep THEN <<chars>>
    ELSE LET i == CHOOSE k \in 1..Len(chars) :
                      /\ chars[k] = sep
                      /\ \A j \in 1..(k - 1) : chars[j] # sep
         IN  <<SubSeq(chars, 1, i - 1)>> \o Split(SubSeq(chars, i + 1, Len(chars)), sep)

\* the deployments in which checkout sessions are created: the providers
\* enabled, whether the Stripe keys are set, whether STRIPE_PRICE_ID is set,
\* whether CREEM_API_KEY is set, and the plans that have a CREEM_PRODUCT_ID_
\* variable
PayDeployments ==
    { [enabled |-> <<"stripe", "creem", "mock">>, defaultProvider |-> "stripe",
       stripeKeys |-> stripe[1], stripePriceId |-> stripe[2],
       creemKey |-> creem[1], creemProducts |-> creem[2]] :
        stripe \in {<<FALSE, FALSE>>, <<TRUE, FALSE>>, <<TRUE, TRUE>>},
        creem \in {<<FALSE, DOMAIN PAYMENT_PLANS>>, <<TRUE, {}>>,
                   <<TRUE, {"pro"}>>, <<TRUE, DOMAIN PAYMENT_PLANS>>} }

\* the ids the backends give to the sessions they create
CS6 == <<"c","s","_","6">>
CH1 == <<"c","h","_","1">>

\* metadata: what the backend stored with the session; credits in digits
NoMetadata == [userId |-> "", planId |-> "", credits |-> <<>>, planType |-> ""]

NoSession ==
    [backend |-> "", id |-> <<>>, requestId |-> <<>>, metadata |-> NoMetadata]

Created(session) == [thrown |-> FALSE, error |-> "", session |-> session]

NotCreated(msg) == [thrown |-> TRUE, error |-> msg, session |-> NoSession]

\* the metadata of createCheckoutSession for a plan of PAYMENT_PLANS
SessionMetadata(params, planType) ==
    [userId |-> params.userId, planId |-> params.planId,
     credits |-> toString(PAYMENT_PLANS[params.planId].credits),
     planType |-> planType]

\* StripePaymentProvider.createCheckoutSession; without STRIPE_PRICE_ID the
\* session is a test payment
StripeCreateCheckoutSession(params, e) ==
    IF ~e.stripeKeys THEN NotCreated("Stripe not configured")
    ELSE IF params.planId \notin DOMAIN PAYMENT_PLANS THEN NotCreated("plan not found")
    ELSE Created([backend |-> "stripe", id |-> CS6, requestId |-> <<>>,
                  metadata |->
                      SessionMetadata(params,
                          IF ~e.stripePriceId THEN "test_payment"
                          ELSE PAYMENT_PLANS[params.planId].type)])

\* MockPaymentProvider.createCheckoutSession; the digits of Math.random() are
\* one letter
MockCreateCheckoutSession(params, today) ==
    IF params.planId \notin DOMAIN PAYMENT_PLANS THEN NotCreated("plan not found")
    ELSE Created([backend |-> "mock",
                  id |-> MOCK_PREFIX \o toString(today) \o <<"_", "r">>,
                  requestId |-> <<>>,
                  metadata |->
                      SessionMetadata(params, PAYMENT_PLANS[params.planId].type)])

\* CreemPaymentProvider.isConfigured
CreemIsConfigured(e) ==
    /\ e.creemKey
    /\ \E planId \in DOMAIN PAYMENT_PLANS : planId \in e.creemProducts

\* requestId of CreemPaymentProvider.createCheckoutSession
RequestId(params, today) ==
    Spelling[params.userId] \o <<"_">> \o Spelling[params.planId] \o <<"_">>
        \o toString(today)

\* CreemPaymentProvider.createCheckoutSession
CreemCreateCheckoutSession(params, e, today) ==
    IF ~CreemIsConfigured(e) THEN NotCreated("Creem not configured")
    ELSE IF params.planId \notin DOMAIN PAYMENT_PLANS THEN NotCreated("plan not found")
    ELSE IF params.planId \notin e.creemProducts THEN NotCreated("no product id")
    ELSE Created([backend |-> "creem", id |-> CH1,
                  requestId |-> RequestId(params, today),
                  metadata |->
                      SessionMetadata(params, PAYMENT_PLANS[params.planId].type)])

\* createCheckoutSession(params) of a provider of the backend
ProviderCreateCheckoutSession(name, params, e, today) ==
    CASE name = "stripe" -> StripeCreateCheckoutSession(params, e)
      [] name = "creem"  -> CreemCreateCheckoutSession(params, e, today)
      [] OTHER           -> MockCreateCheckoutSession(params, today)

\* StripePaymentProvider.verifyPayment of a session that createCheckoutSession
\* made; paid: payment_status is 'paid'; upstream: whether sessions.retrieve
\* answers or rejects (network error, timeout)
StripeVerifySession(session, paid, upstream) ==
    IF upstream # "ok" THEN Failed(session.id, "network error")
    ELSE IF ~paid THEN Failed(session.id, "payment not completed")
    ELSE [success |-> TRUE, sessionId |-> session.id,
          userId |-> session.metadata.userId,
          planId |-> session.metadata.planId,
          credits |-> IF session.metadata.credits # <<>>
                          THEN parseInt(session.metadata.credits) ELSE 0,
          planType |-> session.metadata.planType, error |-> ""]

\* lines 135-160 of CreemPaymentProvider.verifyPayment: the user and the plan
\* are those of the metadata, or else the first two parts of the request id;
\* the credits and the type are those of the metadata, or else the plan's
CreemVerified(id, metadata, requestId, parts) ==
    LET fromToken == requestId # <<>> /\ metadata.userId = "" /\ Len(parts) >= 2
        userId == IF fromToken THEN Text(parts[1]) ELSE metadata.userId
        planId == IF fromToken THEN Text(parts[2]) ELSE metadata.planId
        credits == IF metadata.credits # <<>> THEN parseInt(metadata.credits) ELSE 0
        byPlan == planId # "" /\ credits = 0 /\ planId \in DOMAIN PAYMENT_PLANS
    IN  [success |-> TRUE, sessionId |-> id, userId |-> userId, planId |-> planId,
         credits |-> IF byPlan THEN PAYMENT_PLANS[planId].credits ELSE credits,
         planType |-> IF byPlan THEN PAYMENT_PLANS[planId].type
                      ELSE metadata.planType,
         error |-> ""]

\* CreemPaymentProvider.verifyPayment of a checkout that createCheckoutSession
\* made; completed: status is 'completed'; keeps: whether the checkout that
\* retrieveCheckout returns holds the metadata; the request id is echoed
CreemVerifySession(session, completed, keeps, upstream) ==
    IF upstream # "ok" THEN Failed(session.id, "network error")
    ELSE IF ~completed THEN Failed(session.id, "payment not completed")
    ELSE CreemVerified(session.id, IF keeps THEN session.metadata ELSE NoMetadata,
                       session.requestId, Split(session.requestId, "_"))

\* verifyPayment(session.id) of a provider of the backend that made the session
ProviderVerifySession(session, paid, keeps, upstream) ==
    CASE session.backend = "stripe" -> StripeVerifySession(session, paid, upstream)
      [] session.backend = "creem"  ->
            CreemVerifySession(session, paid, keeps, upstream)
      [] OTHER                      -> MockVerifyPayment(session.id)

----------------------------------------------------------------------------
(* Dates: new Date() is the day number `now` *)

\* the day number on which each month starts; the 13th entry is the next 1 January
MonthStart == <<0, 31, 59, 90, 120, 151, 181, 212, 243, 273, 304, 334, 365>>

getMonth(d) == CHOOSE m \in 0..11 : MonthStart[m + 1] <= d /\ d < MonthStart[m + 2]

\* d.setMonth(d.getMonth() + 1): the same day of the month in the next month,
\* running over into the month after it when the next month is shorter
AddMonth(d) == MonthStart[getMonth(d) + 2] + (d - MonthStart[getMonth(d) + 1])

----------------------------------------------------------------------------
(* The database: lib/schema users and userActivities *)

UserIds == {"u1", "u2"}

\* db.query.users.findFirst({ where: eq(users.email, email) }): <<>> or <<id>>
UserByEmail(email) ==
    CASE email = "u1@mail" -> <<"u1">>
      [] email = "u2@mail" -> <<"u2">>
      [] OTHER             -> <<>>

NewUser ==
    [credits |-> 0, subscriptionCredits |-> 0, subscriptionStatus |-> "none",
     subscriptionPlan |-> "", subscriptionStartDate |-> <<>>,
     subscriptionEndDate |-> <<>>]

\* the characters "sessionId": of a JSON text
SESSION_KEY == <<"\"","s","e","s","s","i","o","n","I","d","\"",":">>

\* JSON.stringify of the metadata object of an activity row.  The member
\* sessionId is spelled out; every other member is one token, since none of
\* them can hold the characters "sessionId": (a quote inside a JSON string is
\* escaped).  A null member prints as null, without quotes.
MetadataText(m) ==
    <<"{">> \o m.before \o SESSION_KEY
        \o (IF IsNull(m.sessionId) THEN <<"n","u","l","l">>
            ELSE <<"\"">> \o m.sessionId \o <<"\"">>)
        \o <<",">> \o <<m.planType, ",", m.planId, ",", m.source>> \o <<"}">>

\* like(userActivities.metadata, `%"sessionId":"${id}"%`)
SessionPattern(id) ==
    <<"%">> \o SESSION_KEY \o <<"\"">> \o Template(id) \o <<"\"">> \o <<"%">>

\* db.query.userActivities.findFirst({ where: and(eq(userId), like(metadata)) })
ExistingActivity(acts, userId, id) ==
    \E i \in 1..Len(acts) :
        /\ acts[i].userId = userId
        /\ Like(MetadataText(acts[i].metadata), SessionPattern(id))

\* user.subscriptionStatus === 'active' && user.subscriptionEndDate
\*   && new Date(user.subscriptionEndDate) > new Date()
hasActiveSubscription(user, today) ==
    /\ user.subscriptionStatus = "active"
    /\ user.subscriptionEndDate # <<>>
    /\ user.subscriptionEndDate[1] > today

----------------------------------------------------------------------------
(* lib/payments/service.ts *)

\* PaymentService.getAvailableProviders: one entry per enabled registry key,
\* described by the instance getProvider returns for it; the first getProvider
\* that throws ends the listing
RECURSIVE ListProviders(_, _, _)
ListProviders(types, cache, e) ==
    IF types = <<>> THEN [thrown |-> FALSE, error |-> "", cache |-> cache, list |-> <<>>]
    ELSE LET p == getProvider(Head(types), cache, e)
         IN  IF ~p.ok
                 THEN [thrown |-> TRUE, error |-> p.error, cache |-> p.cache,
                       list |-> <<>>]
             ELSE LET rest == ListProviders(Tail(types), p.cache, e)
                  IN  [rest EXCEPT !.list =
                          <<[type |-> Head(types), name |-> p.name,
                             isConfigured |-> IsConfigured(p.name, e)]>> \o @]

ServiceGetAvailableProviders(cache, e) ==
    ListProviders(getAvailableProviders(e), cache, e)

\* PaymentService.createCheckoutSession without the test of the plan
\* (lines 16-19 left out)
ServiceCreateWith_NoPlanTest(p, params, created) ==
    IF ~p.ok
        THEN [thrown |-> TRUE, error |-> p.error, cache |-> p.cache,
              delegated |-> 0, session |-> NoSession]
    ELSE [thrown |-> created.thrown, error |-> created.error, cache |-> p.cache,
          delegated |-> 1, session |-> created.session]

\* PaymentService.createCheckoutSession, on the outcome p of getProvider and
\* the outcome `created` that createCheckoutSession(params) of the provider
\* has; delegated: how many times that method was called
ServiceCreateWith(p, params, created) ==
    IF ~p.ok
        THEN [thrown |-> TRUE, error |-> p.error, cache |-> p.cache,
              delegated |-> 0, session |-> NoSession]
    ELSE IF params.planId \notin DOMAIN PAYMENT_PLANS
        THEN [thrown |-> TRUE, error |-> "plan not found", cache |-> p.cache,
              delegated |-> 0, session |-> NoSession]
    ELSE [thrown |-> created.thrown, error |-> created.error, cache |-> p.cache,
          delegated |-> 1, session |-> created.session]

ServiceCreateBy(p, params, e, today) ==
    ServiceCreateWith(p, params,
                      ProviderCreateCheckoutSession(p.name, params, e, today))

\* PaymentService.createCheckoutSession(params, providerType)
ServiceCreateCheckoutSession(params, providerType, cache, e, today) ==
    ServiceCreateBy(getProvider(providerType, cache, e), params, e, today)

----------------------------------------------------------------------------
(* app/api/create-checkout-session/route.ts *)

\* a planId that the body of the request does not give (undefined)
NoPlan == ""

Refusal(status, error) == [status |-> status, error |-> error]

\* the tests before the body is read, without the test of the subscription
\* (lines 45-57 left out)
CheckoutGate_NoSubscriptionTest(nextAuthUrl, caller, rows, today) ==
    IF ~nextAuthUrl THEN Refusal(500, "configuration")
    ELSE IF caller = "" THEN Refusal(401, "unauthorized")
    ELSE IF UserByEmail(caller) = <<>> THEN Refusal(404, "userNotFound")
    ELSE Refusal(0, "")

\* lines 13-57, the tests before the body is read: NEXTAUTH_URL is set, the
\* caller has a session, the account of that address exists and has no active
\* subscription; status 0: the route goes on
CheckoutGate(nextAuthUrl, caller, rows, today) ==
    IF ~nextAuthUrl THEN Refusal(500, "configuration")
    ELSE IF caller = "" THEN Refusal(401, "unauthorized")
    ELSE IF UserByEmail(caller) = <<>> THEN Refusal(404, "userNotFound")
    ELSE IF hasActiveSubscription(rows[UserByEmail(caller)[1]], today)
        THEN Refusal(400, "alreadySubscribed")
    ELSE Refusal(0, "")

CheckoutAnswer(status, error, cache, delegated, session) ==
    [status |-> status, error |-> error, cache |-> cache, delegated |-> delegated,
     session |-> session]

\* lines 59-106, on the outcome of the tests before: the plan of the body
\* ('pro' when none is given) is looked up, a provider named in the body must
\* be available, and the session is created through the service
CheckoutAfter(gate, caller, planId, paymentProvider, cache, e, today) ==
    LET plan == IF planId = NoPlan THEN "pro" ELSE planId
        a == isProviderAvailable(paymentProvider, cache, e)
        c == ServiceCreateCheckoutSession(
                 [userId |-> UserByEmail(caller)[1], planId |-> plan],
                 paymentProvider,
                 IF paymentProvider # NoType THEN a.cache ELSE cache, e, today)
    IN  IF gate.status # 0
            THEN CheckoutAnswer(gate.status, gate.error, cache, 0, NoSession)
        ELSE IF plan \notin DOMAIN PAYMENT_PLANS
            THEN CheckoutAnswer(400, "invalidPlan", cache, 0, NoSession)
        ELSE IF paymentProvider # NoType /\ ~a.available
            THEN CheckoutAnswer(400, "providerUnavailable", a.cache, 0, NoSession)
        ELSE IF c.thrown
            THEN CheckoutAnswer(500, c.error, c.cache, c.delegated, NoSession)
        ELSE CheckoutAnswer(200, "", c.cache, c.delegated, c.session)

\* POST
CheckoutRoute(nextAuthUrl, caller, planId, paymentProvider, rows, cache, e, today) ==
    CheckoutAfter(CheckoutGate(nextAuthUrl, caller, rows, today),
                  caller, planId, paymentProvider, cache, e, today)

----------------------------------------------------------------------------
(* app/api/verify-payment/route.ts *)

DEFAULT_CREDITS == 800

\* actualSessionId without the test for the placeholder (lines 62-65 left out)
ActualSessionId_NoPlaceholderTest(sessionId, checkoutId) ==
    IF ~IsNull(checkoutId) THEN checkoutId ELSE sessionId

\* const actualSessionId: checkout_id before session_id, and a session_id
\* that holds the placeholder is ignored
ActualSessionId(sessionId, checkoutId) ==
    IF ~IsNull(sessionId) /\ Includes(sessionId, PLACEHOLDER) THEN checkoutId
    ELSE IF ~IsNull(checkoutId) THEN checkoutId
    ELSE sessionId

\* lines 88-94: the providers listed, when the request names no provider and
\* has no checkout_id; no listing otherwise
RouteListing(checkoutId, provider, cache, e) ==
    IF provider = NoType /\ IsNull(checkoutId)
        THEN ServiceGetAvailableProviders(cache, e)
    ELSE [thrown |-> FALSE, error |-> "", cache |-> cache, list |-> <<>>]

\* lines 78-98: the provider type verified with: the one named in the request,
\* else creem when there is a checkout_id, else the first one listed as
\* configured ("" when none is)
RouteTarget(checkoutId, provider, list) ==
    IF provider # NoType THEN provider
    ELSE IF ~IsNull(checkoutId) THEN "creem"
    ELSE IF \E i \in 1..Len(list) : list[i].isConfigured
        THEN list[CHOOSE i \in 1..Len(list) :
                    /\ list[i].isConfigured
                    /\ \A j \in 1..(i - 1) : ~list[j].isConfigured].type
    ELSE ""

RouteVerifyWith(actual, target, l, e) ==
    IF l.thrown
        THEN [thrown |-> TRUE, error |-> l.error, cache |-> l.cache,
              result |-> Failed(actual, l.error)]
    ELSE IF target = ""
        THEN [thrown |-> TRUE, error |-> "no provider available",
              cache |-> l.cache, result |-> Failed(actual, "")]
    ELSE ServiceVerifyPayment(actual, target, l.cache, e)

RouteVerifyListed(actual, checkoutId, provider, l, e) ==
    RouteVerifyWith(actual, RouteTarget(checkoutId, provider, l.list), l, e)

\* lines 76-99: the verification call of the route
RouteVerifyPayment(actual, checkoutId, provider, cache, e) ==
    RouteVerifyListed(actual, checkoutId, provider,
                      RouteListing(checkoutId, provider, cache, e), e)

\* the response of the route; called: whether the handler had called the
\* backend's verifyPayment before it answered
Reply(status, error, called) ==
    [route |-> "verify-payment", status |-> status, error |-> error,
     called |-> called, about |-> <<>>, redelivery |-> FALSE]

Outcome(status, error, called, cache, result) ==
    [status |-> status, error |-> error, called |-> called, cache |-> cache,
     result |-> result]

\* the handler without the test that the payment is the caller's
\* (lines 117-127 left out)
VerifyOwner_NoOwnerTest(caller, v) ==
    IF v.thrown THEN Outcome(500, v.error, FALSE, v.cache, v.result)
    ELSE IF ~v.result.success
        THEN Outcome(400, v.result.error, TRUE, v.cache, v.result)
    ELSE IF v.result.userId = ""
        THEN Outcome(400, "user id missing", TRUE, v.cache, v.result)
    ELSE IF v.result.userId \notin UserIds
        THEN Outcome(404, "no such user", TRUE, v.cache, v.result)
    ELSE Outcome(0, "", TRUE, v.cache, v.result)

\* lines 101-139, on the result v of the verification call: the payment must
\* have succeeded and name a user, who must be the caller.
\* status 0: the handler goes on to the idempotency check.
VerifyOwner(caller, v) ==
    IF v.thrown THEN Outcome(500, v.error, FALSE, v.cache, v.result)
    ELSE IF ~v.result.success
        THEN Outcome(400, v.result.error, TRUE, v.cache, v.result)
    ELSE IF v.result.userId = ""
        THEN Outcome(400, "user id missing", TRUE, v.cache, v.result)
    ELSE IF UserByEmail(caller) # <<v.result.userId>>
        THEN Outcome(403, "user mismatch", TRUE, v.cache, v.result)
    ELSE IF v.result.userId \notin UserIds
        THEN Outcome(404, "no such user", TRUE, v.cache, v.result)
    ELSE Outcome(0, "", TRUE, v.cache, v.result)

\* lines 10-72, before the verification call: the caller must be logged in and
\* the request must hold an id that is not the placeholder
VerifyParams(caller, sessionId, checkoutId, actual, cache) ==
    IF caller = ""
        THEN Outcome(401, "not logged in", FALSE, cache, Failed(actual, ""))
    ELSE IF IsNull(sessionId) /\ IsNull(checkoutId)
        THEN Outcome(400, "missing session id", FALSE, cache, Failed(actual, ""))
    ELSE IF IsNull(actual)
        THEN Outcome(400, "missing valid session id", FALSE, cache, Failed(actual, ""))
    ELSE Outcome(0, "", FALSE, cache, Failed(actual, ""))

VerifyPrefixOf(caller, checkoutId, provider, actual, params, cache, e) ==
    IF params.status # 0 THEN params
    ELSE VerifyOwner(caller, RouteVerifyPayment(actual, checkoutId, provider, cache, e))

VerifyPrefixWith(caller, sessionId, checkoutId, provider, actual, cache, e) ==
    VerifyPrefixOf(caller, checkoutId, provider, actual,
                   VerifyParams(caller, sessionId, checkoutId, actual, cache), cache, e)

\* lines 10-139: everything the handler does before it reads the ledger
VerifyPrefix(caller, sessionId, checkoutId, provider, cache, e) ==
    VerifyPrefixWith(caller, sessionId, checkoutId, provider,
                     ActualSessionId(sessionId, checkoutId), cache, e)

\* the request is answered, or it is suspended before the ledger query holding
\* the user row it read (line 130)
VerifyEnter(caller, sessionId, o) ==
    /\ providers' = o.cache
    /\ IF o.status # 0
         THEN /\ lastResp' = Reply(o.status, o.error, o.called)
              /\ UNCHANGED inflight
         ELSE /\ BagCardinality(inflight) < MaxInflight
              /\ Len(activities) + BagCardinality(inflight) < MaxLedger
              /\ inflight' = inflight (+) SetToBag({
                    [pc |-> "check", caller |-> caller,
                     userId |-> o.result.userId,
                     sessionId |-> sessionId, payment |-> o.result,
                     user |-> users[o.result.userId],
                     creditsAmount |-> 0, paymentPlanType |-> "",
                     startDate |-> <<>>, endDate |-> <<>>] })
              /\ UNCHANGED lastResp
    /\ UNCHANGED <<users, activities, verifiedId, env, now, call, failures>>

\* GET, lines 8-139
VerifyBegin(caller, sessionId, checkoutId, provider) ==
    VerifyEnter(caller, sessionId,
                VerifyPrefix(caller, sessionId, checkoutId, provider, providers, env))

\* lines 141-170: the ledger query; a row found answers the request at once.
\* Otherwise the amounts are defaulted, an active subscription rejects a
\* subscription payment, and the dates of the subscription are computed.
VerifyCheck(r) ==
    /\ r.pc = "check"
    /\ LET creditsAmount ==
               IF r.payment.credits = 0 THEN DEFAULT_CREDITS ELSE r.payment.credits
           paymentPlanType ==
               IF r.payment.planType = "" THEN "subscription" ELSE r.payment.planType
       IN  IF ExistingActivity(activities, r.userId, r.sessionId)
             THEN /\ inflight' = inflight (-) SetToBag({r})
                  /\ lastResp' = Reply(200, "", TRUE)
           ELSE IF /\ paymentPlanType = "subscription"
                   /\ hasActiveSubscription(r.user, now)
             THEN /\ inflight' = inflight (-) SetToBag({r})
                  /\ lastResp' = Reply(400, "alreadySubscribed", TRUE)
           ELSE /\ inflight' = (inflight (-) SetToBag({r})) (+) SetToBag({
                      [r EXCEPT !.pc = "update",
                                !.creditsAmount = creditsAmount,
                                !.paymentPlanType = paymentPlanType,
                                !.startDate = <<now>>,
                                !.endDate = <<AddMonth(now)>>] })
                /\ UNCHANGED lastResp
    /\ UNCHANGED <<users, activities, verifiedId, providers, env, now, call, failures>>

\* db.update(users) that sets the credits to the amount bought instead of
\* adding the amount (line 205 without user.credits)
UpdatedUser_Replace(row, r) ==
    IF r.paymentPlanType = "subscription"
        THEN [row EXCEPT !.subscriptionCredits = r.creditsAmount,
                         !.subscriptionStatus = "active",
                         !.subscriptionPlan =
                             IF r.payment.planId = "" THEN "pro" ELSE r.payment.planId,
                         !.subscriptionStartDate = r.startDate,
                         !.subscriptionEndDate = r.endDate]
    ELSE [row EXCEPT !.credits = r.creditsAmount]

\* db.update(users) that writes the status canceled where line 177 writes
\* active
UpdatedUser_Canceled(row, r) ==
    IF r.paymentPlanType = "subscription"
        THEN [row EXCEPT !.subscriptionCredits = r.creditsAmount,
                         !.subscriptionStatus = "canceled",
                         !.subscriptionPlan =
                             IF r.payment.planId = "" THEN "pro" ELSE r.payment.planId,
                         !.subscriptionStartDate = r.startDate,
                         !.subscriptionEndDate = r.endDate]
    ELSE [row EXCEPT !.credits = r.user.credits + r.creditsAmount]

\* db.update(users), lines 174-183 and 203-208
UpdatedUser(row, r) ==
    IF r.paymentPlanType = "subscription"
        THEN [row EXCEPT !.subscriptionCredits = r.creditsAmount,
                         !.subscriptionStatus = "active",
                         !.subscriptionPlan =
                             IF r.payment.planId = "" THEN "pro" ELSE r.payment.planId,
                         !.subscriptionStartDate = r.startDate,
                         !.subscriptionEndDate = r.endDate]
    ELSE [row EXCEPT !.credits = r.user.credits + r.creditsAmount]

VerifyUpdate(r) ==
    /\ r.pc = "update"
    /\ users' = [users EXCEPT ![r.userId] = UpdatedUser(@, r)]
    /\ inflight' = (inflight (-) SetToBag({r})) (+) SetToBag({[r EXCEPT !.pc = "insert"]})
    /\ UNCHANGED <<activities, verifiedId, providers, env, now, lastResp, call, failures>>

\* the row of db.insert(userActivities), lines 186-200 and 211-224
\* (description, createdAt and the timestamps of the metadata are left out)
ActivityRow(r) ==
    [userId |-> r.userId,
     type |-> IF r.paymentPlanType = "subscription" THEN "subscription_activated"
              ELSE "credit_add",
     creditAmount |-> r.creditsAmount,
     metadata |-> [before |-> <<>>,
                   sessionId |-> r.sessionId,
                   planType |-> r.paymentPlanType,
                   planId |-> IF r.payment.planId = "" THEN "pro" ELSE r.payment.planId,
                   source |-> "verify-payment-api"]]

\* db.insert(userActivities) and the answer, lines 186-238
VerifyInsert(r) ==
    /\ r.pc = "insert"
    /\ activities' = Append(activities, ActivityRow(r))
    /\ verifiedId' = Append(verifiedId, r.payment.sessionId)
    /\ inflight' = inflight (-) SetToBag({r})
    /\ lastResp' = Reply(200, "", TRUE)
    /\ UNCHANGED <<users, providers, env, now, call, failures>>

\* an awaited database statement of the request rejects (the ledger query of
\* line 142, db.update or db.insert): the catch of lines 240-246 answers 500,
\* and what was written before stays written
VerifyFail(r) ==
    /\ failures < MaxFailures
    /\ failures' = failures + 1
    /\ inflight' = inflight (-) SetToBag({r})
    /\ lastResp' = Reply(500, "database error", TRUE)
    /\ UNCHANGED <<users, activities, verifiedId, providers, env, now, call>>

----------------------------------------------------------------------------
(* Time passes *)

Tick ==
    /\ \E t \in Instants : t > now /\ now' = t
    /\ UNCHANGED <<users, activities, verifiedId, providers, env, inflight, lastResp,
                   call, failures>>

----------------------------------------------------------------------------
(* lib/payments/providers: handleWebhook *)

NoEvent == <<>>

\* StripePaymentProvider.handleWebhook: throws without a client (the keys are
\* not set) or without a signature; null when constructEvent rejects the
\* signature or the payload is not an event; else the event of the payload
StripeHandleWebhook(payload, signature, e) ==
    IF ~e.stripeKeys \/ signature = "absent" THEN [thrown |-> TRUE, event |-> NoEvent]
    ELSE IF signature # "valid" \/ ~payload.object
        THEN [thrown |-> FALSE, event |-> NoEvent]
    ELSE [thrown |-> FALSE, event |-> <<payload>>]

\* MockPaymentProvider.handleWebhook: every payload is a payment.completed event
MockHandleWebhook(payload, signature) ==
    [thrown |-> FALSE, event |-> <<[payload EXCEPT !.type = "payment.completed"]>>]

\* CreemPaymentProvider.handleWebhook: the signature is not looked at; null for
\* a payload that is not an object; every other payload is an event, of type
\* checkout.completed when the payload names no type
CreemHandleWebhook(payload, signature) ==
    IF ~payload.object THEN [thrown |-> FALSE, event |-> NoEvent]
    ELSE [thrown |-> FALSE,
          event |-> <<[payload EXCEPT !.type =
                          IF @ = "" THEN "checkout.completed" ELSE @]>>]

\* provider.handleWebhook(payload, signature) of the provider of that name
ProviderHandleWebhook(name, payload, signature, e) ==
    CASE name = "stripe" -> StripeHandleWebhook(payload, signature, e)
      [] name = "mock"   -> MockHandleWebhook(payload, signature)
      [] OTHER           -> CreemHandleWebhook(payload, signature)

HandledBy(p, h) ==
    IF ~p.ok THEN [thrown |-> TRUE, error |-> p.error, cache |-> p.cache,
                   event |-> NoEvent]
    ELSE [thrown |-> h.thrown, error |-> "webhook configuration",
          cache |-> p.cache, event |-> h.event]

ServiceHandleWith(payload, signature, p, e) ==
    HandledBy(p, ProviderHandleWebhook(p.name, payload, signature, e))

\* PaymentService.handleWebhook
ServiceHandleWebhook(payload, signature, providerType, cache, e) ==
    ServiceHandleWith(payload, signature, getProvider(providerType, cache, e), e)

----------------------------------------------------------------------------
(* lib/credit-service: addCredits(userId, amount, description, metadata, type) *)

\* permanent credits are added to users.credits, subscription credits replace
\* users.subscriptionCredits; one activity row records the metadata
AddCredits(db, userId, amount, kind, metadata, creditType) ==
    [users |-> [db.users EXCEPT ![userId] =
                    IF creditType = "subscription"
                        THEN [@ EXCEPT !.subscriptionCredits = amount]
                    ELSE [@ EXCEPT !.credits = @ + amount]],
     activities |-> Append(db.activities,
                     [userId |-> userId, type |-> kind, creditAmount |-> amount,
                      metadata |-> metadata])]

----------------------------------------------------------------------------
(* app/api/creem/webhook/route.ts *)

\* lines 30-92: checkout.completed and payment.completed
OnCheckoutCompleted(db, ev, today) ==
    IF ev.type \notin {"checkout.completed", "payment.completed"} THEN db
    ELSE IF ev.userId \notin UserIds THEN db
    ELSE IF ExistingActivity(db.activities, ev.userId, ev.id) THEN db
    ELSE LET credited ==
                 AddCredits(db, ev.userId, ev.credits,
                     IF ev.planType = "subscription" THEN "subscription_activated"
                     ELSE "credit_add",
                     [before |-> <<"type", ",", "planId", ",">>, sessionId |-> ev.id,
                      planType |-> "", planId |-> ev.planId,
                      source |-> "creem-webhook"],
                     IF ev.planType = "subscription" THEN "subscription"
                     ELSE "permanent")
         IN  IF ev.planType # "subscription" THEN credited
             ELSE [credited EXCEPT !.users[ev.userId] =
                      [@ EXCEPT !.subscriptionStatus = "active",
                                !.subscriptionPlan = ev.planId,
                                !.subscriptionStartDate = <<today>>,
                                !.subscriptionEndDate = <<today + 30>>]]

\* lines 94-129: subscription.renewed and invoice.payment_succeeded
OnRenewal(db, ev) ==
    IF ev.type \notin {"subscription.renewed", "invoice.payment_succeeded"} THEN db
    ELSE IF UserByEmail(ev.customerEmail) = <<>> THEN db
    ELSE AddCredits(db, UserByEmail(ev.customerEmail)[1], PRO_MONTHLY_CREDITS,
             "subscription_renewal",
             [before |-> <<"type", ",", "invoiceId", ",">>, sessionId |-> Null,
              planType |-> "", planId |-> "", source |-> "creem-webhook"],
             "subscription")

\* lines 131-167: subscription.cancelled and subscription.deleted
OnCancelled(db, ev, today) ==
    IF ev.type \notin {"subscription.cancelled", "subscription.deleted"} THEN db
    ELSE IF UserByEmail(ev.customerEmail) = <<>> THEN db
    ELSE LET u == UserByEmail(ev.customerEmail)[1]
             cleared == AddCredits(db, u, 0, "subscription_expired",
                            [before |-> <<"type", ",">>, sessionId |-> Null,
                             planType |-> "", planId |-> "",
                             source |-> "creem-webhook"],
                            "subscription")
         IN  [cleared EXCEPT !.users[u] =
                 [@ EXCEPT !.subscriptionStatus = "canceled",
                           !.subscriptionEndDate = <<today>>]]

\* lines 169-195: payment.failed and invoice.payment_failed
OnPaymentFailed(db, ev) ==
    IF ev.type \notin {"payment.failed", "invoice.payment_failed"} THEN db
    ELSE IF UserByEmail(ev.customerEmail) = <<>> THEN db
    ELSE LET u == UserByEmail(ev.customerEmail)[1]
         IN  IF db.users[u].subscriptionStatus # "active" THEN db
             ELSE [db EXCEPT !.users[u].subscriptionStatus = "past_due"]

\* lines 30-195: the four groups of event types, one after the other
OnEvent(db, ev, today) ==
    OnPaymentFailed(OnCancelled(OnRenewal(OnCheckoutCompleted(db, ev, today), ev),
                                ev, today), ev)

\* the response of the route; about: the payload the request delivered;
\* redelivery: the request that completed before this one was a delivery of
\* the same payload
WebhookAnswer(status, error, payload) ==
    [route |-> "creem-webhook", status |-> status, error |-> error,
     called |-> FALSE, about |-> <<payload>>,
     redelivery |-> (lastResp.route = "creem-webhook" /\ lastResp.about = <<payload>>)]

\* the event is applied and acknowledged
WebhookApply(payload, h, db) ==
    /\ Len(db.activities) <= MaxLedger
    /\ lastResp' = WebhookAnswer(200, "", payload)
    /\ users' = db.users
    /\ activities' = db.activities
    /\ verifiedId' = IF Len(db.activities) > Len(activities)
                       THEN Append(verifiedId, h.event[1].id)
                       ELSE verifiedId

\* POST: the body that does not parse and the error thrown by the service are
\* answered 500, a null event 400, every event {received: true}
WebhookOn(parseable, payload, h) ==
    /\ providers' = IF parseable THEN h.cache ELSE providers
    /\ IF ~parseable
         THEN /\ lastResp' = [WebhookAnswer(500, "JSON.parse", payload)
                                 EXCEPT !.about = <<>>, !.redelivery = FALSE]
              /\ UNCHANGED <<users, activities, verifiedId>>
       ELSE IF h.thrown
         THEN /\ lastResp' = WebhookAnswer(500, h.error, payload)
              /\ UNCHANGED <<users, activities, verifiedId>>
       ELSE IF h.event = NoEvent
         THEN /\ lastResp' = WebhookAnswer(400, "Invalid webhook", payload)
              /\ UNCHANGED <<users, activities, verifiedId>>
       ELSE WebhookApply(payload, h,
                         OnEvent([users |-> users, activities |-> activities],
                                 h.event[1], now))

CreemWebhook(parseable, payload, signature) ==
    WebhookOn(parseable, payload,
              ServiceHandleWebhook(payload, signature, "creem", providers, env))

CreemWebhookPOST(parseable, payload, signature) ==
    /\ CreemWebhook(parseable, payload, signature)
    /\ UNCHANGED <<env, now, inflight, call, failures>>

----------------------------------------------------------------------------
(* The system *)

Query(caller, sessionId, checkoutId, provider) ==
    [caller |-> caller, sessionId |-> sessionId, checkoutId |-> checkoutId,
     provider |-> provider]

\* the verify-payment requests considered: those of the owner of the payments,
\* with the id as session_id, as checkout_id, and as checkout_id beside the
\* placeholder; and requests that are to be refused
VerifyRequests ==
    { Query("u1@mail", ids[1], ids[2], "stripe") :
        ids \in { <<CS1, Null>>, <<CS2, Null>>, <<CS3, Null>>, <<CS4, Null>>,
                  <<CS5, Null>>, <<Null, CS1>>, <<Null, CS2>>,
                  <<PLACEHOLDER, CS1>> } }
    \cup
    { Query("u1@mail", ids[1], ids[2], NoType) :
        ids \in { <<CS1, Null>>, <<CS2, Null>>, <<MOCK1, Null>>, <<Null, CS1>>,
                  <<PLACEHOLDER, Null>>, <<<<"?">> \o PLACEHOLDER, Null>>,
                  <<Null, Null>> } }
    \cup
    { Query("", CS1, Null, "stripe"), Query("", PLACEHOLDER, Null, NoType),
      Query("u2@mail", CS1, Null, "stripe"), Query("u2@mail", CS2, Null, NoType),
      Query("u2@mail", PLACEHOLDER, Null, "stripe"),
      Query("u1@mail", Null, CS1, "creem") }

\* a webhook payload that is a JSON object
Event(type, id, userId, planId, customerEmail) ==
    [object |-> TRUE, type |-> type, id |-> id, userId |-> userId, planId |-> planId,
     credits |-> IF planId = "" THEN 0 ELSE PAYMENT_PLANS[planId].credits,
     planType |-> IF planId = "" THEN "" ELSE PAYMENT_PLANS[planId].type,
     customerEmail |-> customerEmail]

\* a webhook payload that parses as JSON and is not an object (a number)
ScalarPayload == [Event("", Null, "", "", "") EXCEPT !.object = FALSE]

\* the webhook payloads the providers are given
WebhookPayloads ==
    { Event("checkout.completed", CS1, "u1", "credits_100", "u1@mail"),
      Event("checkout.completed", CS2, "u1", "pro", "u1@mail"),
      Event("", CS3, "u1", "credits_500", "u1@mail"),
      Event("subscription.renewed", CS2, "", "", "u1@mail"),
      Event("subscription.cancelled", CS2, "", "", "u1@mail"),
      Event("payment.failed", CS2, "", "", "u1@mail"),
      ScalarPayload }

\* the webhook payloads delivered to the route
DeliveredPayloads ==
    { Event("checkout.completed", CS1, "u1", "credits_100", "u1@mail"),
      Event("checkout.completed", CS2, "u1", "pro", "u1@mail"),
      ScalarPayload }

\* the verify-payment requests that run concurrently
ConcurrentRequests ==
    { Query("u1@mail", id, Null, "stripe") : id \in {CS1, CS2, CS3, CS5} }
    \cup { Query("u1@mail", Null, CS1, "stripe"), Query("u2@mail", CS1, Null, "stripe") }

\* the creem-signature header: of the sender, of somebody else, or none
Signatures == {"valid", "forged", "absent"}

\* the payment backends that have a provider class
Backends == {"stripe", "mock", "creem"}

\* the provider types a caller of the factory may name
ProviderTypes == {NoType, "stripe", "mock", "creem", "alipay"}

\* the page as it was before the priority of checkout_id was introduced: the
\* request carries the session_id of the redirect as it is
SuccessPageRequest_SessionIdOnly(user, sessionId, checkoutId, provider) ==
    IF user = "" \/ IsNull(sessionId) THEN <<>>
    ELSE <<Query(user, sessionId, Null, provider)>>

\* PaymentSuccessContent, the effect of lines 40-124: the verify-payment request
\* that the page makes for the user logged in (<<>>: none) when the redirect
\* carries session_id, checkout_id and provider.  The request carries
\* checkout_id when there is one, and otherwise session_id.
SuccessPageRequest(user, sessionId, checkoutId, provider) ==
    LET actualSessionId == IF ~IsNull(checkoutId) THEN checkoutId ELSE sessionId
    IN  IF user = "" THEN <<>>
        ELSE IF IsNull(actualSessionId) THEN <<>>
        ELSE IF Includes(actualSessionId, PLACEHOLDER) THEN <<>>
        ELSE IF ~IsNull(checkoutId) THEN <<Query(user, Null, checkoutId, provider)>>
        ELSE <<Query(user, actualSessionId, Null, provider)>>

\* the redirects to the payment success page: the user logged in ("" for
\* none) and the session_id, checkout_id and provider of the URL
Redirects ==
    { Query(user, sessionId, checkoutId, provider) :
        user \in {"", "u1@mail"},
        sessionId \in {Null, CS1, CS2, PLACEHOLDER},
        checkoutId \in {Null, CS1, PLACEHOLDER},
        provider \in {NoType, "stripe"} }

\* providerType: the type getProvider went for; made: the provider types it
\* constructed an instance of; session: the checkout session made or verified,
\* nth: how many times it has been verified, result: what verifyPayment
\* returned, routeStatus: the status with which the verify-payment route
\* answers that result to the user of the session (0: it goes on to reconcile)
NoCall ==
    [op |-> "", target |-> "", signature |-> "", object |-> FALSE, thrown |-> FALSE,
     error |-> "", name |-> "", event |-> NoEvent, providerType |-> "", made |-> {},
     nested |-> 0, available |-> FALSE, list |-> <<>>, search |-> <<>>,
     request |-> <<>>,
     userId |-> "", planId |-> "", delegated |-> 0,
     session |-> NoSession, paid |-> FALSE, keeps |-> FALSE, upstream |-> "",
     nth |-> 0, result |-> Failed(<<>>, ""), routeStatus |-> 0]

\* handleWebhook(payload, signature) of a provider of the backend
HandleWebhookCall(backend, payload, signature) ==
    /\ call' = [NoCall EXCEPT
                   !.op = "handleWebhook", !.target = backend,
                   !.signature = signature, !.object = payload.object,
                   !.thrown = ProviderHandleWebhook(backend, payload, signature, env).thrown,
                   !.event = ProviderHandleWebhook(backend, payload, signature, env).event]
    /\ UNCHANGED <<users, activities, verifiedId, providers, env, now, inflight, lastResp,
                   failures>>

\* the outcome r of PaymentService.getAvailableProviders() is recorded
ListDone(r) ==
    /\ call' = [NoCall EXCEPT
                   !.op = "getAvailableProviders", !.thrown = r.thrown,
                   !.error = r.error, !.list = r.list]
    /\ providers' = r.cache
    /\ UNCHANGED <<users, activities, verifiedId, env, now, inflight, lastResp,
                   failures>>

\* PaymentService.getAvailableProviders()
ListCall == ListDone(ServiceGetAvailableProviders(providers, env))

\* the outcome a of PaymentFactory.isProviderAvailable(type) is recorded
IsAvailableDone(type, a) ==
    /\ call' = [NoCall EXCEPT
                   !.op = "isProviderAvailable", !.target = type,
                   !.available = a.available]
    /\ providers' = a.cache
    /\ UNCHANGED <<users, activities, verifiedId, env, now, inflight, lastResp,
                   failures>>

\* PaymentFactory.isProviderAvailable(type)
IsAvailableCall(type) == IsAvailableDone(type, isProviderAvailable(type, providers, env))

\* clearCache that leaves the instances in the map
ClearedCache_Keep(cache) == cache

\* this.providers.clear()
ClearedCache(cache) == NoProviders

\* PaymentFactory.clearCache()
ClearCacheCall ==
    /\ call' = [NoCall EXCEPT !.op = "clearCache"]
    /\ providers' = ClearedCache(providers)
    /\ UNCHANGED <<users, activities, verifiedId, env, now, inflight, lastResp,
                   failures>>

\* the outcome p of PaymentFactory.getProvider(type) is recorded
GetProviderDone(type, p) ==
    /\ call' = [NoCall EXCEPT
                   !.op = "getProvider", !.target = type,
                   !.providerType = TargetType(type, env),
                   !.thrown = ~p.ok, !.error = p.error, !.name = p.name,
                   !.made = p.made, !.nested = p.nested]
    /\ providers' = p.cache
    /\ UNCHANGED <<users, activities, verifiedId, env, now, inflight, lastResp,
                   failures>>

\* PaymentFactory.getProvider(type)
GetProviderCall(type) == GetProviderDone(type, getProvider(type, providers, env))

NoResponse ==
    [route |-> "", status |-> 0, error |-> "", called |-> FALSE, about |-> <<>>,
     redelivery |-> FALSE]

Init ==
    /\ users = [u \in UserIds |-> NewUser]
    /\ activities = <<>>
    /\ verifiedId = <<>>
    /\ providers = NoProviders
    /\ env \in Envs
    /\ now = 0
    /\ inflight = EmptyBag
    /\ lastResp = NoResponse
    /\ call = NoCall
    /\ failures = 0

\* a step of a request: a new verify-payment request is taken up, one that is
\* suspended goes on, or a webhook is delivered and handled.  When requests are
\* handled one after the other, a request begins only when none is suspended.
Step(requests, payloads, sequential) ==
    \/ /\ sequential => inflight = EmptyBag
       /\ \E q \in requests :
            VerifyBegin(q.caller, q.sessionId, q.checkoutId, q.provider)
    \/ \E r \in BagToSet(inflight) : VerifyCheck(r)
    \/ \E r \in BagToSet(inflight) : VerifyUpdate(r)
    \/ \E r \in BagToSet(inflight) : VerifyInsert(r)
    \/ /\ sequential => inflight = EmptyBag
       /\ \E parseable \in BOOLEAN, payload \in payloads, signature \in Signatures :
            CreemWebhookPOST(parseable, payload, signature)
    \/ Tick

\* requests are handled concurrently, up to MaxInflight at a time
Next == Step(ConcurrentRequests, DeliveredPayloads, FALSE)

Spec == Init /\ [][Next]_vars

\* requests are handled one after the other
NextSeq == Step(VerifyRequests, DeliveredPayloads, TRUE)

SpecSeq == Init /\ [][NextSeq]_vars

\* the verify-payment requests made while webhooks of every type are delivered
HookRequests == { Query("u1@mail", id, Null, "stripe") : id \in {CS1, CS2} }

\* requests and webhooks of every type, handled one after the other
NextHook == Step(HookRequests, WebhookPayloads, TRUE)

SpecHook == Init /\ [][NextHook]_vars

\* the verify-payment requests made while database statements may fail
FailRequests == { Query("u1@mail", id, Null, "stripe") : id \in {CS1, CS2, CS3} }

\* requests handled one after the other, of which a database statement may fail
NextFail ==
    \/ Step(FailRequests, DeliveredPayloads, TRUE)
    \/ \E r \in BagToSet(inflight) : VerifyFail(r)

SpecFail == Init /\ [][NextFail]_vars

\* the payment library called directly: the factory and the providers
NextLib ==
    \/ \E backend \in Backends, payload \in WebhookPayloads, signature \in Signatures :
            HandleWebhookCall(backend, payload, signature)
    \/ \E type \in ProviderTypes : GetProviderCall(type)
    \/ ClearCacheCall
    \/ ListCall
    \/ \E type \in ProviderTypes \ {NoType} : IsAvailableCall(type)

\* the outcome r of a createCheckoutSession call is recorded
CreateDone(op, target, params, r) ==
    /\ call' = [NoCall EXCEPT
                   !.op = op, !.target = target, !.userId = params.userId,
                   !.planId = params.planId, !.thrown = r.thrown,
                   !.error = r.error, !.delegated = r.delegated,
                   !.session = r.session]
    /\ providers' = r.cache
    /\ UNCHANGED <<users, activities, verifiedId, env, now, inflight, lastResp,
                   failures>>

\* PaymentService.createCheckoutSession({ userId, planId, ... }, type)
CreateSessionCall(type, userId, planId) ==
    CreateDone("createCheckoutSession", type,
               [userId |-> userId, planId |-> planId],
               ServiceCreateCheckoutSession([userId |-> userId, planId |-> planId],
                                            type, providers, env, now))

DirectlyCreated(created, cache) ==
    [thrown |-> created.thrown, error |-> created.error, cache |-> cache,
     delegated |-> 1, session |-> created.session]

\* new CreemPaymentProvider().createCheckoutSession({ userId, planId, ... })
CreemCreateCall(userId, planId) ==
    CreateDone("creem.createCheckoutSession", "creem",
               [userId |-> userId, planId |-> planId],
               DirectlyCreated(
                   CreemCreateCheckoutSession([userId |-> userId, planId |-> planId],
                                              env, now),
                   providers))

\* the address of the user
EmailOf(userId) == CHOOSE email \in {"u1@mail", "u2@mail"} : UserByEmail(email) = <<userId>>

\* the result of verifyPayment is recorded, with the answer of lines 101-139 of
\* the verify-payment route to it
VerifyDone(paid, keeps, upstream, result, answer) ==
    /\ call' = [call EXCEPT
                   !.op = "verifyPayment", !.paid = paid, !.keeps = keeps,
                   !.upstream = upstream, !.nth = @ + 1, !.result = result,
                   !.routeStatus = answer.status]
    /\ UNCHANGED <<users, activities, verifiedId, providers, env, now, inflight,
                   lastResp, failures>>

VerifyResult(paid, keeps, upstream, result) ==
    VerifyDone(paid, keeps, upstream, result,
               VerifyOwner(EmailOf(call.userId),
                           [thrown |-> FALSE, error |-> "", cache |-> providers,
                            result |-> result]))

\* verifyPayment that takes the session as verified once it has been verified
VerifyCreatedCall_Once(paid, keeps, upstream) ==
    /\ call.session.backend # ""
    /\ call.nth < MaxVerifications
    /\ VerifyResult(paid, keeps, upstream,
                    IF call.nth > 0 THEN Failed(call.session.id, "already verified")
                    ELSE ProviderVerifySession(call.session, paid, keeps, upstream))

\* verifyPayment(id) of the provider that made the session, for the session
\* made last, while the backend holds it as paid or not, with or without its
\* metadata, and answers or not
VerifyCreatedCall(paid, keeps, upstream) ==
    /\ call.session.backend # ""
    /\ call.nth < MaxVerifications
    /\ VerifyResult(paid, keeps, upstream,
                    ProviderVerifySession(call.session, paid, keeps, upstream))

\* the ids given to verifyPayment of the mock provider: with the prefix, the
\* prefix alone, the prefix without its last character, the prefix after
\* another character, and an id of the Stripe backend
GivenIds ==
    { MOCK1, MOCK_PREFIX, SubSeq(MOCK_PREFIX, 1, Len(MOCK_PREFIX) - 1),
      <<"x">> \o MOCK1, CS1 }

\* new MockPaymentProvider().verifyPayment(sessionId); the session recorded is
\* the id alone
MockVerifyCall(sessionId) ==
    /\ call' = [NoCall EXCEPT
                   !.op = "mock.verifyPayment",
                   !.session = [NoSession EXCEPT !.id = sessionId],
                   !.result = MockVerifyPayment(sessionId)]
    /\ UNCHANGED <<users, activities, verifiedId, providers, env, now, inflight,
                   lastResp, failures>>

\* the plan ids a caller may name: those of PAYMENT_PLANS and one that is not
PlanIds == DOMAIN PAYMENT_PLANS \cup {"gold"}

\* checkout sessions are created and verified through the payment library
NextPay ==
    \/ \E type \in {NoType, "stripe", "mock", "creem"}, userId \in UserIds,
          planId \in PlanIds :
            CreateSessionCall(type, userId, planId)
    \/ \E userId \in UserIds, planId \in PlanIds : CreemCreateCall(userId, planId)
    \/ \E sessionId \in GivenIds : MockVerifyCall(sessionId)
    \/ \E paid \in BOOLEAN, keeps \in BOOLEAN, upstream \in {"ok", "fails"} :
            VerifyCreatedCall(paid, keeps, upstream)

InitPay ==
    /\ users = [u \in UserIds |-> NewUser]
    /\ activities = <<>>
    /\ verifiedId = <<>>
    /\ providers = NoProviders
    /\ env \in PayDeployments
    /\ now = 0
    /\ inflight = EmptyBag
    /\ lastResp = NoResponse
    /\ call = NoCall
    /\ failures = 0

SpecPay == InitPay /\ [][NextPay]_vars

\* the payment success page is loaded with the redirect; search: the
\* parameters of the redirect, request: the request the page is to make
PageLoadOf(redirect, request) ==
    /\ inflight = EmptyBag
    /\ call' = [NoCall EXCEPT
                   !.op = "successPage", !.search = <<redirect>>,
                   !.request = request]
    /\ UNCHANGED <<users, activities, verifiedId, providers, env, now, inflight,
                   lastResp, failures>>

PageLoad(redirect) ==
    PageLoadOf(redirect,
               SuccessPageRequest(redirect.caller, redirect.sessionId,
                                  redirect.checkoutId, redirect.provider))

\* fetch(verifyUrl) of the page: the request reaches the verify-payment route
PageFetch ==
    /\ inflight = EmptyBag
    /\ call.op = "successPage"
    /\ call.request # <<>>
    /\ VerifyBegin(call.request[1].caller, call.request[1].sessionId,
                   call.request[1].checkoutId, call.request[1].provider)

\* the success page is loaded after redirects, and the requests it makes are
\* handled one after the other
NextPage ==
    \/ \E redirect \in Redirects : PageLoad(redirect)
    \/ PageFetch
    \/ \E r \in BagToSet(inflight) : VerifyCheck(r)
    \/ \E r \in BagToSet(inflight) : VerifyUpdate(r)
    \/ \E r \in BagToSet(inflight) : VerifyInsert(r)

SpecPage == Init /\ [][NextPage]_vars

\* the answer of the create-checkout-session route is recorded; request: the
\* caller and the body, delegated: the createCheckoutSession calls that reached
\* a provider
CheckoutDone(caller, planId, paymentProvider, answer) ==
    /\ inflight = EmptyBag
    /\ call' = [NoCall EXCEPT
                   !.op = "create-checkout-session",
                   !.request = <<[caller |-> caller, planId |-> planId,
                                  provider |-> paymentProvider]>>,
                   !.routeStatus = answer.status, !.error = answer.error,
                   !.delegated = answer.delegated, !.session = answer.session]
    /\ providers' = answer.cache
    /\ UNCHANGED <<users, activities, verifiedId, env, now, inflight, lastResp,
                   failures>>

\* POST /api/create-checkout-session by the caller ("" for none), with
\* NEXTAUTH_URL set or not
CheckoutPOST(nextAuthUrl, caller, planId, paymentProvider) ==
    CheckoutDone(caller, planId, paymentProvider,
                 CheckoutRoute(nextAuthUrl, caller, planId, paymentProvider,
                               users, providers, env, now))

\* the payments of the first account that are verified: one of a one-time
\* plan and one of the subscription
PaidRequests == { Query("u1@mail", id, Null, "stripe") : id \in {CS1, CS2} }

\* those who ask for a checkout session: nobody, the first account and an
\* address without an account
CheckoutCallers == {"", "u1@mail", "u3@mail"}

\* the deployments in which checkout sessions are asked for: Creem is set up
\* for every plan, Stripe has its keys or not, with or without STRIPE_PRICE_ID
CheckoutDeployments ==
    { d \in PayDeployments : d.creemKey /\ d.creemProducts = DOMAIN PAYMENT_PLANS }

InitCheckout ==
    /\ users = [u \in UserIds |-> NewUser]
    /\ activities = <<>>
    /\ verifiedId = <<>>
    /\ providers = NoProviders
    /\ env \in CheckoutDeployments
    /\ now = 0
    /\ inflight = EmptyBag
    /\ lastResp = NoResponse
    /\ call = NoCall
    /\ failures = 0

\* checkout sessions are asked for while payments are verified, one request
\* after the other, and time passes
NextCheckout ==
    \/ \E nextAuthUrl \in BOOLEAN, caller \in CheckoutCallers,
          planId \in PlanIds \cup {NoPlan}, paymentProvider \in {NoType, "stripe", "mock"} :
            CheckoutPOST(nextAuthUrl, caller, planId, paymentProvider)
    \/ /\ inflight = EmptyBag
       /\ \E q \in PaidRequests :
            VerifyBegin(q.caller, q.sessionId, q.checkoutId, q.provider)
    \/ \E r \in BagToSet(inflight) : VerifyCheck(r)
    \/ \E r \in BagToSet(inflight) : VerifyUpdate(r)
    \/ \E r \in BagToSet(inflight) : VerifyInsert(r)
    \/ Tick

SpecCheckout == InitCheckout /\ [][NextCheckout]_vars

\* GET /api/verify-payment by the user of the session made last, with the
\* result that verifyPayment had for it: the route goes on from line 101
ReconcileCreated ==
    /\ call.op = "verifyPayment"
    /\ call.routeStatus = 0
    /\ inflight = EmptyBag
    /\ VerifyEnter(EmailOf(call.userId), call.session.id,
                   VerifyOwner(EmailOf(call.userId),
                               [thrown |-> FALSE, error |-> "", cache |-> providers,
                                result |-> call.result]))

\* checkout sessions are created through the service, paid, verified and
\* reconciled by the verify-payment route, one request after the other
NextReconcile ==
    \/ /\ inflight = EmptyBag
       /\ \E type \in {NoType, "stripe", "mock"}, userId \in UserIds,
             planId \in PlanIds :
               CreateSessionCall(type, userId, planId)
    \/ /\ inflight = EmptyBag
       /\ \E paid \in BOOLEAN, keeps \in BOOLEAN, upstream \in {"ok", "fails"} :
               VerifyCreatedCall(paid, keeps, upstream)
    \/ ReconcileCreated
    \/ \E r \in BagToSet(inflight) : VerifyCheck(r)
    \/ \E r \in BagToSet(inflight) : VerifyUpdate(r)
    \/ \E r \in BagToSet(inflight) : VerifyInsert(r)

SpecReconcile == InitCheckout /\ [][NextReconcile]_vars

\* the library is deployed with any of the configurations
InitLib ==
    /\ users = [u \in UserIds |-> NewUser]
    /\ activities = <<>>
    /\ verifiedId = <<>>
    /\ providers = NoProviders
    /\ env \in Deployments
    /\ now = 0
    /\ inflight = EmptyBag
    /\ lastResp = NoResponse
    /\ call = NoCall
    /\ failures = 0

SpecLib == InitLib /\ [][NextLib]_vars

----------------------------------------------------------------------------
(* Properties *)

\* the ledger holds a row of the account for the payment of that id
Reconciled(userId, id) ==
    \E i \in 1..Len(activities) :
        activities[i].userId = userId /\ verifiedId[i] = id

\* the request is the only one for its payment: no row of the ledger and no
\* other suspended request is for it
Fresh(r) ==
    /\ ~Reconciled(r.userId, r.payment.sessionId)
    /\ CopiesIn(r, inflight) = 1
    /\ \A r2 \in BagToSet(inflight) :
           r2.payment.sessionId = r.payment.sessionId => r2 = r

\* the payment is for a subscription (planType || 'subscription')
ForSubscription(r) == r.payment.planType \in {"subscription", ""}

\* the credits the plan of the payment grants
Grant(r) == PAYMENT_PLANS[r.payment.planId].credits

RECURSIVE CreditsAdded(_, _)
\* the sum of the credit_add rows of the account
CreditsAdded(acts, userId) ==
    IF acts = <<>> THEN 0
    ELSE CreditsAdded(Tail(acts), userId)
         + (IF Head(acts).userId = userId /\ Head(acts).type = "credit_add"
                THEN Head(acts).creditAmount ELSE 0)

\* C1: a payment verified any number of times, by requests whose ledger query
\* and writes interleave, has one ledger entry: no two rows of an account that
\* record the verified id as their session id are for the same payment.
C1_OneEntryPerPayment ==
    \A i, j \in 1..Len(activities) :
        ( /\ activities[i].userId = activities[j].userId
          /\ verifiedId[i] = verifiedId[j]
          /\ activities[i].metadata.sessionId = verifiedId[i]
          /\ activities[j].metadata.sessionId = verifiedId[j] ) => i = j

\* two requests for the same payment are suspended after the ledger query
C1_BothPassedTheCheck ==
    \E r1, r2 \in BagToSet(inflight) :
        /\ r1 # r2
        /\ r1.pc # "check" /\ r2.pc # "check"
        /\ r1.payment.sessionId = r2.payment.sessionId

C3_ReverificationNoOp ==
    [][ \A r \in BagToSet(inflight) :
          ( /\ r.pc = "check"
            /\ Reconciled(r.userId, r.payment.sessionId)
            /\ VerifyCheck(r) )
          => /\ lastResp' = Reply(200, "", TRUE)
             /\ inflight' = inflight (-) SetToBag({r})
             /\ UNCHANGED <<users, activities>> ]_vars

\* a reconciled payment is verified again, by checkout_id
C3_ReverifiedByCheckoutId ==
    \E r \in BagToSet(inflight) :
        /\ r.pc = "check"
        /\ IsNull(r.sessionId)
        /\ Reconciled(r.userId, r.payment.sessionId)

\* C4: the second of two deliveries in a row of the same checkout.completed
\* webhook is acknowledged, and it changes neither the users nor the ledger.
C4_DuplicateCallback ==
    /\ []( ( /\ lastResp.route = "creem-webhook"
             /\ lastResp.redelivery
             /\ lastResp.about[1].type = "checkout.completed" )
           => lastResp.status = 200 )
    /\ [][ \A payload \in DeliveredPayloads, signature \in Signatures :
             ( /\ lastResp.route = "creem-webhook"
               /\ lastResp.about = <<payload>>
               /\ payload.type = "checkout.completed"
               /\ CreemWebhookPOST(TRUE, payload, signature) )
             => UNCHANGED <<users, activities>> ]_vars

\* C5: while the account has an active subscription that has not ended, a
\* request for a subscription payment not seen before is rejected at the
\* ledger query and nothing changes; no such request updates the user.
C5_NoDoubleSubscription ==
    [][ \A r \in BagToSet(inflight) :
          ( /\ ForSubscription(r)
            /\ Fresh(r)
            /\ hasActiveSubscription(users[r.userId], now) )
          => /\ ~VerifyUpdate(r)
             /\ VerifyCheck(r) =>
                  /\ lastResp' = Reply(400, "alreadySubscribed", TRUE)
                  /\ inflight' = inflight (-) SetToBag({r})
                  /\ UNCHANGED <<users, activities>> ]_vars

\* a request for a subscription payment was rejected: the account is subscribed
C5_Rejected ==
    /\ lastResp = Reply(400, "alreadySubscribed", TRUE)
    /\ hasActiveSubscription(users["u1"], now)

\* the payment the request asks to verify, as the route calls for it
Verified(q) ==
    RouteVerifyPayment(ActualSessionId(q.sessionId, q.checkoutId), q.checkoutId,
                       q.provider, providers, env)

\* the verification succeeded, and the payment is not the caller's
NotOwnerOf(caller, v) ==
    /\ ~v.thrown
    /\ v.result.success
    /\ v.result.userId # ""
    /\ UserByEmail(caller) # <<v.result.userId>>

\* the request holds an id, and the payment of that id is paid and is not the
\* caller's
OwnedByAnother(q) ==
    /\ q.caller # ""
    /\ ~IsNull(ActualSessionId(q.sessionId, q.checkoutId))
    /\ NotOwnerOf(q.caller, Verified(q))

\* the step answers a verify-payment request or suspends one more request
AnswersOrSuspends ==
    \/ lastResp' # lastResp /\ lastResp'.route = "verify-payment"
    \/ BagCardinality(inflight') > BagCardinality(inflight)

\* C6: a request of a caller who is not logged in is answered 401 and one for
\* a payment of another account 403, and neither changes a user, the ledger
\* or the requests suspended; a user or the ledger changes only while a
\* request of the logged-in owner of a verified payment of that user runs.
C6_OwnershipBeforeReconciliation ==
    /\ [][ \A q \in VerifyRequests :
             ( /\ AnswersOrSuspends
               /\ (q.caller = "" \/ OwnedByAnother(q))
               /\ VerifyBegin(q.caller, q.sessionId, q.checkoutId, q.provider) )
             => /\ lastResp'.status = (IF q.caller = "" THEN 401 ELSE 403)
                /\ UNCHANGED <<users, activities, inflight>> ]_vars
    /\ [][ \A u \in UserIds :
             ( \/ users'[u] # users[u]
               \/ /\ Len(activities') > Len(activities)
                  /\ activities'[Len(activities')].userId = u )
             => \E r \in BagToSet(inflight) :
                    /\ r.caller # ""
                    /\ UserByEmail(r.caller) = <<u>>
                    /\ r.payment.success
                    /\ r.payment.userId = u ]_vars
    /\ [][ Len(activities') > Len(activities)
             => activities'[Len(activities')].userId \in UserIds ]_vars

\* a request for a payment of another account was answered 403
C6_MismatchRejected == lastResp = Reply(403, "user mismatch", TRUE)

\* C7: handleWebhook of every backend returns null, and throws nothing, for a
\* payload whose signature is not the sender's or which is not an event object.
C7_UnauthenticatedIsNull ==
    ( /\ call.op = "handleWebhook"
      /\ (call.signature # "valid" \/ ~call.object) )
    => (~call.thrown /\ call.event = NoEvent)

\* a provider returned an event for a payload with a forged signature
C7_ForgedAccepted ==
    /\ call.op = "handleWebhook"
    /\ call.signature = "forged"
    /\ call.event # NoEvent

\* the only id of the request is a session_id that holds the placeholder
PlaceholderOnly(q) ==
    /\ ~IsNull(q.sessionId)
    /\ Includes(q.sessionId, PLACEHOLDER)
    /\ IsNull(q.checkoutId)

C9_CanonicalLedgerKey ==
    \A i \in 1..Len(activities) : activities[i].metadata.sessionId = verifiedId[i]

\* a ledger row records the placeholder as its session id
C9_PlaceholderRecorded ==
    \E i \in 1..Len(activities) :
        Includes(activities[i].metadata.sessionId, PLACEHOLDER)

\* C10: reconciling a one-time payment adds the credits the plan grants to the
\* credits of the user and changes nothing else of any user, then appends one
\* credit_add row of that amount; when no request is suspended the credits of
\* a user are the sum of its credit_add rows.
C10_OneTimeCredit ==
    /\ [][ \A r \in BagToSet(inflight) :
             (r.paymentPlanType = "one_time" /\ VerifyUpdate(r))
             => users' = [users EXCEPT ![r.userId].credits = @ + Grant(r)] ]_vars
    /\ [][ \A r \in BagToSet(inflight) :
             (r.paymentPlanType = "one_time" /\ VerifyInsert(r))
             => /\ Len(activities') = Len(activities) + 1
                /\ SubSeq(activities', 1, Len(activities)) = activities
                /\ activities'[Len(activities')].userId = r.userId
                /\ activities'[Len(activities')].type = "credit_add"
                /\ activities'[Len(activities')].creditAmount = Grant(r)
                /\ UNCHANGED users ]_vars
    /\ []( inflight = EmptyBag =>
             \A u \in UserIds : users[u].credits = CreditsAdded(activities, u) )

\* two one-time payments of 100 and 500 credits are reconciled
C10_BothCredited ==
    /\ inflight = EmptyBag
    /\ users["u1"].credits = PAYMENT_PLANS.credits_100.credits
                                + PAYMENT_PLANS.credits_500.credits
    /\ users["u1"].subscriptionStatus = "none"

\* C18: getProvider for an enabled type whose new instance is not configured
\* returns the mock provider and throws nothing, whatever the list of enabled
\* providers holds.
C18_FallbackNeverFails ==
    ( /\ call.op = "getProvider"
      /\ InSeq(call.providerType, env.enabled)
      /\ call.providerType \in call.made
      /\ ~IsConfigured(call.providerType, env) )
    => (~call.thrown /\ call.name = "mock")

\* getProvider('stripe') without the Stripe keys returned the mock provider
C18_FellBack ==
    /\ call.op = "getProvider"
    /\ call.providerType = "stripe"
    /\ ~env.stripeKeys
    /\ ~call.thrown
    /\ call.name = "mock"

\* C19: getProvider throws 'not enabled' whenever the type it goes for is not
\* in the list of enabled providers, and then it has constructed no provider
\* and the cache of instances is the one it found.
C19_NotEnabledRejected ==
    /\ []( ( /\ call.op = "getProvider"
             /\ \A i \in 1..Len(env.enabled) : env.enabled[i] # call.providerType )
           => /\ call.thrown
              /\ call.error = "provider not enabled"
              /\ call.made = {} )
    /\ [][ \A type \in ProviderTypes :
             ( /\ GetProviderCall(type)
               /\ \A i \in 1..Len(env.enabled) : env.enabled[i] # call'.providerType )
             => providers' = providers ]_vars

\* a type that is not enabled was refused while the cache held an instance
C19_Refused ==
    /\ call.op = "getProvider"
    /\ call.error = "provider not enabled"
    /\ call.made = {}
    /\ providers # NoProviders

\* C20: getProvider with a type goes for that type; without one it goes for
\* the default provider when the list of enabled providers holds it, else for
\* the first entry of the list, else for the mock provider.
C20_TargetSelection ==
    call.op = "getProvider" =>
        call.providerType =
            IF call.target # NoType THEN call.target
            ELSE IF \E i \in 1..Len(env.enabled) : env.enabled[i] = env.defaultProvider
                THEN env.defaultProvider
            ELSE IF Len(env.enabled) > 0 /\ env.enabled[1] # ""
                THEN env.enabled[1]
            ELSE "mock"

\* the default provider is not enabled: the first enabled provider was taken
C20_FirstEnabledTaken ==
    /\ call.op = "getProvider"
    /\ call.target = NoType
    /\ \A i \in 1..Len(env.enabled) : env.enabled[i] # env.defaultProvider
    /\ call.providerType = env.enabled[1]
    /\ call.providerType # ""

\* the webhook answered last delivered an event of one of the types, and the
\* event names a user by id
AnsweredFor(types) ==
    /\ lastResp.route = "creem-webhook"
    /\ lastResp.about # <<>>
    /\ lastResp.about[1].type \in types

\* the webhook answered last delivered an event of one of the types for the
\* customer u
AnsweredForCustomer(types, u) ==
    /\ AnsweredFor(types)
    /\ UserByEmail(lastResp.about[1].customerEmail) = <<u>>

\* the last row of the ledger is of that user, type and amount
LastRow(u, type, amount) ==
    /\ Len(activities) > 0
    /\ activities[Len(activities)].userId = u
    /\ activities[Len(activities)].type = type
    /\ activities[Len(activities)].creditAmount = amount

\* a verify-payment request for a subscription payment replaces the
\* subscription credits by the plan's credits, makes the subscription active
\* from the instant of the request for one month, leaves the credits alone,
\* and then appends one subscription_activated row
ActivatedByVerification ==
    /\ [][ \A r \in BagToSet(inflight) :
             (r.paymentPlanType = "subscription" /\ VerifyUpdate(r))
             => /\ r.startDate # <<>>
                /\ r.startDate[1] <= now
                /\ users' = [users EXCEPT ![r.userId] =
                      [@ EXCEPT !.subscriptionCredits = Grant(r),
                                !.subscriptionStatus = "active",
                                !.subscriptionPlan = r.payment.planId,
                                !.subscriptionStartDate = r.startDate,
                                !.subscriptionEndDate = <<AddMonth(r.startDate[1])>>]] ]_vars
    /\ [][ \A r \in BagToSet(inflight) :
             (r.pc = "check" /\ VerifyCheck(r))
             => \A r2 \in BagToSet(inflight') \ BagToSet(inflight) :
                    r2.startDate = <<now>> ]_vars
    /\ [][ \A r \in BagToSet(inflight) :
             (r.paymentPlanType = "subscription" /\ VerifyInsert(r))
             => /\ Len(activities') = Len(activities) + 1
                /\ SubSeq(activities', 1, Len(activities)) = activities
                /\ activities'[Len(activities')].userId = r.userId
                /\ activities'[Len(activities')].type = "subscription_activated"
                /\ activities'[Len(activities')].creditAmount = Grant(r)
                /\ UNCHANGED users ]_vars

\* a checkout.completed webhook for a subscription payment is acknowledged
\* and leaves the subscription of the user active with the plan's credits,
\* and a subscription_activated row of the user in the ledger
ActivatedByCallback ==
    ( /\ AnsweredFor({"checkout.completed"})
      /\ lastResp.about[1].planType = "subscription"
      /\ lastResp.about[1].userId \in UserIds )
    => /\ lastResp.status = 200
       /\ users[lastResp.about[1].userId].subscriptionStatus = "active"
       /\ users[lastResp.about[1].userId].subscriptionPlan = lastResp.about[1].planId
       /\ users[lastResp.about[1].userId].subscriptionCredits
              = lastResp.about[1].credits
       /\ \E i \in 1..Len(activities) :
              /\ activities[i].userId = lastResp.about[1].userId
              /\ activities[i].type = "subscription_activated"

\* C11: a subscription payment reconciled by a verify-payment request or by a
\* checkout.completed webhook sets the subscription credits to the plan's
\* credits, the status to active, the plan, the start to now and the end to a
\* month later, leaves the credits alone and appends one
\* subscription_activated row.
C11_RecurringActivation == ActivatedByVerification /\ []ActivatedByCallback

\* a subscription was activated by a verify-payment request
C11_Activated ==
    /\ users["u1"].subscriptionStatus = "active"
    /\ users["u1"].subscriptionCredits = PAYMENT_PLANS.pro.credits
    /\ users["u1"].subscriptionEndDate = <<AddMonth(users["u1"].subscriptionStartDate[1])>>
    /\ LastRow("u1", "subscription_activated", PAYMENT_PLANS.pro.credits)

\* C12: a subscription.renewed webhook for a customer with an active
\* subscription is acknowledged, sets the subscription credits to the pro
\* plan's credits, moves the end of the subscription to a month from now and
\* appends one subscription_renewal row.
C12_RenewalReplacesAndExtends ==
    \A u \in UserIds :
        ( /\ AnsweredForCustomer({"subscription.renewed"}, u)
          /\ users[u].subscriptionStatus = "active" )
        => /\ lastResp.status = 200
           /\ users[u].subscriptionCredits = PAYMENT_PLANS.pro.credits
           /\ users[u].subscriptionEndDate = <<AddMonth(now)>>
           /\ LastRow(u, "subscription_renewal", PAYMENT_PLANS.pro.credits)

\* a renewal was delivered for a customer whose subscription is active
C12_RenewalDelivered ==
    /\ AnsweredForCustomer({"subscription.renewed"}, "u1")
    /\ users["u1"].subscriptionStatus = "active"

\* the changes of subscriptionStatus that are allowed
StatusEdges ==
    { <<"none", "active">>, <<"active", "past_due">>, <<"past_due", "active">>,
      <<"active", "canceled">>, <<"past_due", "canceled">>, <<"canceled", "active">> }

C15_Cancellation ==
    /\ [](\A u \in UserIds :
            AnsweredForCustomer({"subscription.cancelled"}, u)
            => /\ lastResp.status = 200
               /\ users[u].subscriptionCredits = 0
               /\ users[u].subscriptionStatus = "canceled"
               /\ users[u].subscriptionEndDate = <<now>>
               /\ LastRow(u, "subscription_expired", 0))
    /\ [][ \A payload \in WebhookPayloads, signature \in Signatures :
             ( /\ payload.type = "subscription.cancelled"
               /\ CreemWebhookPOST(TRUE, payload, signature) )
             => \A u \in UserIds : users'[u].credits = users[u].credits ]_vars

\* a cancellation was delivered for a customer whose subscription is active
C15_CancelDelivered ==
    /\ AnsweredForCustomer({"subscription.cancelled"}, "u1")
    /\ users["u1"].subscriptionStatus = "active"

\* C16: after a payment.failed webhook for a known customer the subscription
\* is not active (past_due when it was active, as it was otherwise), and the
\* webhook is acknowledged; it appends no row and changes no credits, and it
\* changes nothing of a customer whose subscription was not active.
C16_PaymentFailure ==
    /\ [](\A u \in UserIds :
            AnsweredForCustomer({"payment.failed"}, u)
            => /\ lastResp.status = 200
               /\ users[u].subscriptionStatus # "active")
    /\ [][ \A payload \in WebhookPayloads, signature \in Signatures :
             ( /\ payload.type = "payment.failed"
               /\ CreemWebhookPOST(TRUE, payload, signature) )
             => /\ UNCHANGED activities
                /\ \A u \in UserIds :
                      /\ users'[u].credits = users[u].credits
                      /\ users'[u].subscriptionCredits = users[u].subscriptionCredits
                      /\ users[u].subscriptionStatus # "active"
                            => users'[u] = users[u] ]_vars

\* a payment failure was delivered for a customer whose subscription is active
C16_FailureDelivered ==
    /\ AnsweredForCustomer({"payment.failed"}, "u1")
    /\ users["u1"].subscriptionStatus = "active"

\* the credits a user can hold when each of the one-time payments is credited
\* at most once
OnceEach ==
    { a + b : a \in {0, PAYMENT_PLANS.credits_100.credits},
              b \in {0, PAYMENT_PLANS.credits_500.credits} }

\* C17: when a statement of a reconciliation fails between its writes and the
\* payment is delivered again, no payment is credited twice, no ledger row is
\* without the change of the account it records, and no activation is left
\* without its ledger row: a request refused as alreadySubscribed finds the
\* subscription_activated row of the account.
C17_PartialFailureSafe ==
    /\ \A u \in UserIds : users[u].credits \in OnceEach
    /\ \A u \in UserIds : users[u].credits >= CreditsAdded(activities, u)
    /\ \A i \in 1..Len(activities) :
           activities[i].type = "subscription_activated"
           => users[activities[i].userId].subscriptionStatus = "active"
    /\ lastResp = Reply(400, "alreadySubscribed", TRUE)
         => \E i \in 1..Len(activities) :
                /\ activities[i].userId = "u1"
                /\ activities[i].type = "subscription_activated"

\* db.insert failed after db.update had credited the user
C17_Interrupted ==
    /\ failures > 0
    /\ inflight = EmptyBag
    /\ lastResp = Reply(500, "database error", TRUE)
    /\ users["u1"].credits > CreditsAdded(activities, "u1")

\* the provider type has a class whose constructor returns, is enabled and is
\* configured in the deployment
Available(type, e) ==
    /\ isPaymentProviderEnabled(type, e)
    /\ InSeq(type, PAYMENT_PROVIDERS)
    /\ type \notin NotImplemented
    /\ IsConfigured(type, e)

\* C21: for an enabled and configured provider type, getProvider returns the
\* instance of that type; it constructs the instance when the cache does not
\* hold one, and then holds it; when the cache holds one it returns that
\* instance, constructs none and leaves the cache as it is.  clearCache empties
\* the cache, so that the getProvider call after it constructs a new instance.
C21_InstanceCaching ==
    [][ /\ \A type \in ProviderTypes :
             GetProviderCall(type) /\ Available(TargetType(type, env), env)
             => /\ ~call'.thrown
                /\ call'.name = TargetType(type, env)
                /\ call'.name \in DOMAIN providers'
                /\ call'.name \in DOMAIN providers
                     => call'.made = {} /\ providers' = providers
                /\ call'.name \notin DOMAIN providers
                     => call'.made = {call'.name}
                /\ call.op = "clearCache" => call'.made = {call'.name}
        /\ ClearCacheCall => providers' = NoProviders ]_vars

\* getProvider returned the instance the cache held
C21_ReturnedFromCache ==
    /\ call.op = "getProvider"
    /\ ~call.thrown
    /\ call.name = "stripe"
    /\ call.made = {}

\* C22: the listing of the available providers never throws, holds exactly one
\* entry for each enabled provider type that has a provider class, and the
\* isConfigured of the entry of a type is the isConfigured() of a provider of
\* that type: false for an enabled type whose keys are missing.
C22_LiveListing ==
    call.op = "getAvailableProviders"
    => /\ ~call.thrown
       /\ \A type \in Backends :
              isPaymentProviderEnabled(type, env)
              => Cardinality({i \in 1..Len(call.list) : call.list[i].type = type}) = 1
       /\ \A i \in 1..Len(call.list) :
              call.list[i].isConfigured = IsConfigured(call.list[i].type, env)

\* the listing holds an entry for stripe, enabled without its keys, that the
\* mock provider described
C22_ListedByFallback ==
    /\ call.op = "getAvailableProviders"
    /\ ~call.thrown
    /\ ~env.stripeKeys
    /\ \E i \in 1..Len(call.list) :
           /\ call.list[i].type = "stripe"
           /\ call.list[i].name = "mock"
           /\ call.list[i].isConfigured

\* the errors with which getProvider throws
ProviderErrors ==
    {"provider not enabled", "provider not supported", "provider not implemented"}

\* C23: PaymentService.createCheckoutSession with a plan id that PAYMENT_PLANS
\* does not hold throws and does not call createCheckoutSession of the
\* provider; the error is the one of the plan test unless no provider could be
\* had.  With a plan id that PAYMENT_PLANS holds, and a provider, it calls
\* createCheckoutSession of the provider exactly once.
C23_PlanValidatedFirst ==
    call.op = "createCheckoutSession"
    => /\ call.planId \notin DOMAIN PAYMENT_PLANS
            => /\ call.thrown
               /\ call.delegated = 0
               /\ call.session = NoSession
               /\ call.error \in ProviderErrors \cup {"plan not found"}
               /\ call.target # "creem" => call.error = "plan not found"
       /\ call.planId \in DOMAIN PAYMENT_PLANS /\ call.error \notin ProviderErrors
            => call.delegated = 1

\* a session was asked for with a plan id that is not registered
C23_UnknownPlanRefused ==
    /\ call.op = "createCheckoutSession"
    /\ call.planId = "gold"
    /\ call.thrown
    /\ call.error = "plan not found"
    /\ call.delegated = 0

C25_CallbackAcknowledged ==
    lastResp.route = "creem-webhook"
    => (lastResp.about # <<>> <=> lastResp.status = 200)

\* a delivery whose body parses was answered with an error status
C25_ParseableRefused ==
    /\ lastResp.route = "creem-webhook"
    /\ lastResp.about # <<>>
    /\ lastResp.about[1].object
    /\ lastResp.status = 500

\* the checkout made by createCheckoutSession of the Creem provider for the
\* user and the plan of the call was verified while completed and reachable
CreemVerifiedCompleted ==
    /\ call.op = "verifyPayment"
    /\ call.session.backend = "creem"
    /\ call.paid
    /\ call.upstream = "ok"

\* the result names the user and the plan the session was made for, with the
\* credits and the type of that plan
ResultFor(result, userId, planId) ==
    /\ result.success
    /\ result.userId = userId
    /\ result.planId = planId
    /\ result.credits = PAYMENT_PLANS[planId].credits
    /\ result.planType = PAYMENT_PLANS[planId].type

\* C26: when the backend returns the checkout without its metadata and with
\* the request id userId_planId_timestamp, verifyPayment of the Creem provider
\* returns the user and the plan the session was made for, with the credits
\* and the type of that plan, for each plan of PAYMENT_PLANS.
C26_RequestTokenRoundTrip ==
    CreemVerifiedCompleted /\ ~call.keeps
    => ResultFor(call.result, call.userId, call.planId)

\* the plan id read from the request id of a credits_100 checkout is the text
\* before the underscore of the plan id
C26_PlanIdCut ==
    /\ CreemVerifiedCompleted
    /\ ~call.keeps
    /\ call.planId = "credits_100"
    /\ call.result.userId = call.userId
    /\ call.result.planId = "credits"
    /\ call.result.credits = 0

\* C27: in a deployment in which isConfigured() of the Creem provider is true,
\* createCheckoutSession of that provider does not fail for want of a
\* product id, for any plan of PAYMENT_PLANS.
C27_ConfigurationComplete ==
    ( /\ call.op = "creem.createCheckoutSession"
      /\ CreemIsConfigured(env)
      /\ call.planId \in DOMAIN PAYMENT_PLANS )
    => call.error # "no product id"

\* a configured Creem provider had no product id for the plan asked for
C27_ProductIdMissing ==
    /\ call.op = "creem.createCheckoutSession"
    /\ CreemIsConfigured(env)
    /\ env.creemProducts = {"pro"}
    /\ call.planId = "credits_100"
    /\ call.thrown
    /\ call.error = "no product id"

\* C28: a session that createCheckoutSession of the Stripe or of the Creem
\* provider made for a user and a plan, once paid and verified with the
\* metadata the backend holds, gives the user, the plan, and the credits and
\* the type of the plan, in every deployment: with and without STRIPE_PRICE_ID.
C28_MetadataEndToEnd ==
    ( /\ call.op = "verifyPayment"
      /\ call.session.backend \in {"stripe", "creem"}
      /\ call.paid
      /\ call.upstream = "ok"
      /\ call.session.backend = "creem" => call.keeps )
    => ResultFor(call.result, call.userId, call.planId)

\* the session of the subscription plan made without STRIPE_PRICE_ID verifies
\* with the type test_payment
C28_TestPayment ==
    /\ call.op = "verifyPayment"
    /\ call.session.backend = "stripe"
    /\ ~env.stripePriceId
    /\ call.planId = "pro"
    /\ call.result.success
    /\ call.result.userId = call.userId
    /\ call.result.credits = PAYMENT_PLANS.pro.credits
    /\ call.result.planType = "test_payment"

\* C29: when the call to the backend fails while a Stripe or Creem session is
\* verified, the verify-payment route answers with a server-error status,
\* which tells the caller to try again, and not with the status 400 with
\* which it answers a payment that is not completed.
C29_UpstreamFailureRetryable ==
    ( /\ call.op = "verifyPayment"
      /\ call.session.backend \in {"stripe", "creem"}
      /\ call.upstream = "fails" )
    => call.routeStatus >= 500

\* the failure of the call to the backend came back as a result with
\* success: false and was answered 400, as a payment that is not completed is
C29_AnsweredAsUnpaid ==
    /\ call.op = "verifyPayment"
    /\ call.session.backend = "stripe"
    /\ call.upstream = "fails"
    /\ call.paid
    /\ ~call.result.success
    /\ call.routeStatus = 400
    /\ VerifyOwner(EmailOf(call.userId),
                   [thrown |-> FALSE, error |-> "", cache |-> providers,
                    result |-> Failed(call.session.id, "payment not completed")]).status
         = call.routeStatus

\* C30: the session that the mock provider makes for the user u1 and the plan
\* credits_100 has an id that begins with mock_session_, and its verification
\* succeeds with 100 credits of the type one_time for u1, so that the
\* verify-payment route goes on to reconcile it for u1.
C30_MockHappyPath ==
    ( /\ call.op = "verifyPayment"
      /\ call.session.backend = "mock"
      /\ call.userId = "u1"
      /\ call.planId = "credits_100" )
    => /\ StartsWith(call.session.id, MOCK_PREFIX)
       /\ call.result.success
       /\ call.result.sessionId = call.session.id
       /\ call.result.userId = "u1"
       /\ call.result.credits = 100
       /\ call.result.planType = "one_time"
       /\ call.routeStatus = 0

\* the verification of the mock session of u1 for credits_100 gave the fixed
\* values of the mock provider, and the route refused u1
C30_DemoValues ==
    /\ call.op = "verifyPayment"
    /\ call.session.backend = "mock"
    /\ call.userId = "u1"
    /\ call.planId = "credits_100"
    /\ call.session.metadata.credits = <<"1", "0", "0">>
    /\ call.result.success
    /\ call.result.userId = "mock_user"
    /\ call.result.credits = 800
    /\ call.result.planType = "subscription"
    /\ call.routeStatus = 403

\* C31: every getProvider call returns or throws, and makes at most one
\* getProvider call inside itself, in every deployment and for every type
\* asked for.
C31_BoundedFallback ==
    call.op = "getProvider" => call.nested <= 1

\* getProvider fell back to the mock provider through one call of itself
C31_OneNestedCall ==
    /\ call.op = "getProvider"
    /\ call.nested = 1
    /\ call.providerType = "stripe"
    /\ call.name = "mock"

\* the id holds the placeholder of the success URL
Unresolved(id) == ~IsNull(id) /\ Includes(id, PLACEHOLDER)

\* C32: the payment success page makes no verify-payment request with an id
\* that holds the placeholder {CHECKOUT_SESSION_ID}; it makes no request when
\* the only id of the redirect is the placeholder; and when the redirect
\* carries a checkout_id without the placeholder beside a session_id that is
\* the placeholder, the request of the user logged in carries that checkout_id
\* and no session_id.
C32_ClientPlaceholder ==
    call.op = "successPage"
    => /\ \A i \in 1..Len(call.request) :
              /\ ~Unresolved(call.request[i].sessionId)
              /\ ~Unresolved(call.request[i].checkoutId)
       /\ ( \/ Unresolved(call.search[1].sessionId) /\ IsNull(call.search[1].checkoutId)
            \/ Unresolved(call.search[1].checkoutId) /\ IsNull(call.search[1].sessionId) )
            => call.request = <<>>
       /\ ( /\ call.search[1].caller # ""
            /\ Unresolved(call.search[1].sessionId)
            /\ ~IsNull(call.search[1].checkoutId)
            /\ ~Unresolved(call.search[1].checkoutId) )
            => call.request = <<Query(call.search[1].caller, Null,
                                      call.search[1].checkoutId,
                                      call.search[1].provider)>>

\* the redirect carried the placeholder as session_id beside a checkout_id,
\* and the request of the page reached the route with the checkout_id alone
C32_VerifiedByCheckoutId ==
    /\ call.op = "successPage"
    /\ call.search[1].sessionId = PLACEHOLDER
    /\ call.search[1].checkoutId = CS1
    /\ call.request # <<>>
    /\ IsNull(call.request[1].sessionId)
    /\ lastResp.route = "verify-payment"

\* C33: the id of every session that createCheckoutSession of the mock
\* provider makes begins with mock_session_, and verifyPayment of the mock
\* provider succeeds for it; verifyPayment of the mock provider fails for
\* every id that does not begin with mock_session_; and a session made by
\* PaymentService.createCheckoutSession for the type mock is one of the mock
\* provider.
C33_MockRoundTrip ==
    /\ ( /\ call.op \in {"createCheckoutSession", "verifyPayment"}
         /\ call.session.backend = "mock" )
       => StartsWith(call.session.id, MOCK_PREFIX)
    /\ ( call.op = "verifyPayment" /\ call.session.backend = "mock" )
       => call.result.success /\ call.result.sessionId = call.session.id
    /\ call.op = "mock.verifyPayment"
       => (call.result.success <=> StartsWith(call.session.id, MOCK_PREFIX))
    /\ ( /\ call.op = "createCheckoutSession"
         /\ call.target = "mock"
         /\ ~call.thrown )
       => call.session.backend = "mock"

\* the session that the service made for the type mock was verified
C33_MockSessionVerified ==
    /\ call.op = "verifyPayment"
    /\ call.target = "mock"
    /\ call.session.backend = "mock"
    /\ call.result.success

\* the provider that verifies for the route when the listing l was made and
\* the target type chosen: the outcome of getProvider for the target
VerifierWith(l, target) ==
    IF l.thrown THEN Thrown(l.error, l.cache)
    ELSE IF target = "" THEN Thrown("no provider available", l.cache)
    ELSE getProvider(target, l.cache, env)

VerifierListed(q, l) ==
    VerifierWith(l, RouteTarget(q.checkoutId, q.provider, l.list))

\* the provider that verifies the request q
Verifier(q) == VerifierListed(q, RouteListing(q.checkoutId, q.provider, providers, env))

\* the type the request is to be verified with: the provider named, else creem
\* for a checkout_id, else the first provider listed as configured
ChosenListed(q, l) == RouteTarget(q.checkoutId, q.provider, l.list)

Chosen(q) == ChosenListed(q, RouteListing(q.checkoutId, q.provider, providers, env))

\* the backend that made the session of the id
CreatorOf(id) ==
    IF StartsWith(id, MOCK_PREFIX) THEN "mock"
    ELSE IF id \in DOMAIN StripeSessions THEN "stripe"
    ELSE ""

\* the request passes the tests made before the verification
Verifiable(q) ==
    VerifyParams(q.caller, q.sessionId, q.checkoutId,
                 ActualSessionId(q.sessionId, q.checkoutId), providers).status = 0

BackendChosen(q, p, id) ==
    /\ p.ok
    /\ p.name = Chosen(q)
    /\ CreatorOf(id) # "" => p.name = CreatorOf(id)

\* C34: a verify-payment request that reaches the verification is verified by
\* the provider of the type named in the request; without a name by the Creem
\* provider when it has a checkout_id, and else by the provider of the first
\* type listed as configured; and the provider that verifies is the one of the
\* backend that made the session.
C34_BackendChoice ==
    [][ \A q \in VerifyRequests :
          ( /\ Verifiable(q)
            /\ VerifyBegin(q.caller, q.sessionId, q.checkoutId, q.provider) )
          => BackendChosen(q, Verifier(q), ActualSessionId(q.sessionId, q.checkoutId))
      ]_vars

\* a request for a Stripe session that names no provider was verified by the
\* mock provider, the first listed as configured, which refused the id
C34_VerifiedByMock ==
    /\ ~env.stripeKeys
    /\ lastResp = Reply(400, "invalid mock session", TRUE)

\* the two one-time payments cs_1 and cs_3 of u1 are reconciled, each by one
\* row of the ledger, and no request is suspended
BothOneTimeReconciled ==
    /\ inflight = EmptyBag
    /\ Len(activities) = 2
    /\ Reconciled("u1", CS1)
    /\ Reconciled("u1", CS3)

\* C35: when two different one-time payments of a user are reconciled by
\* verify-payment requests that run concurrently, the credits of the user are
\* the credits before plus the credits of both plans, and the ledger holds one
\* row for each payment.
C35_NoLostUpdate ==
    BothOneTimeReconciled
    => /\ users["u1"].credits =
              PAYMENT_PLANS.credits_100.credits + PAYMENT_PLANS.credits_500.credits
       /\ CreditsAdded(activities, "u1") = users["u1"].credits

\* both payments have their ledger row, and the user holds the credits of one
C35_UpdateLost ==
    /\ BothOneTimeReconciled
    /\ CreditsAdded(activities, "u1") = 600
    /\ users["u1"].credits = PAYMENT_PLANS.credits_500.credits

\* C36: isProviderAvailable(type) returns true only for a type that is enabled
\* and whose own provider is configured.
C36_AvailabilityTruthful ==
    ( call.op = "isProviderAvailable" /\ call.available )
    => /\ isPaymentProviderEnabled(call.target, env)
       /\ IsConfigured(call.target, env)

\* stripe, enabled without its keys, was reported as available
C36_UnconfiguredAvailable ==
    /\ call.op = "isProviderAvailable"
    /\ call.target = "stripe"
    /\ ~env.stripeKeys
    /\ call.available

\* C37: every entry of the instance cache is for a provider type whose own
\* provider is configured and holds the instance of that type; a getProvider
\* call that falls back to the mock provider stores nothing under the type
\* asked for; and a getProvider call that throws leaves the cache as it was.
C37_CacheInvariant ==
    /\ [](\A type \in DOMAIN providers :
              providers[type] = type /\ IsConfigured(type, env))
    /\ [][ \A type \in ProviderTypes :
             GetProviderCall(type)
             => /\ call'.thrown => providers' = providers
                /\ ( ~call'.thrown /\ call'.name # call'.providerType )
                     => ( /\ call'.providerType \notin DOMAIN providers'
                          /\ \A t \in DOMAIN providers' \ DOMAIN providers :
                                 t = call'.name ) ]_vars

\* getProvider('stripe') fell back to the mock provider, and the cache holds
\* the mock provider under its own type and nothing under stripe
C37_FallbackCachedAsMock ==
    /\ call.op = "getProvider"
    /\ call.providerType = "stripe"
    /\ call.name = "mock"
    /\ DOMAIN providers = {"mock"}
    /\ providers["mock"] = "mock"

\* the account of the caller has an active subscription that ends later
Subscribed(caller) ==
    /\ UserByEmail(caller) # <<>>
    /\ users[UserByEmail(caller)[1]].subscriptionStatus = "active"
    /\ users[UserByEmail(caller)[1]].subscriptionEndDate # <<>>
    /\ users[UserByEmail(caller)[1]].subscriptionEndDate[1] > now

\* C38: the create-checkout-session route creates no checkout session and
\* calls no provider for a caller whose account has an active subscription
\* with a later end date, whatever plan is asked for, nor for a caller that is
\* not logged in, an address without an account, or a planId that is not a plan.
C38_SessionCreationGate ==
    [][ ( /\ call'.op = "create-checkout-session"
          /\ \E nextAuthUrl \in BOOLEAN :
                 CheckoutPOST(nextAuthUrl, call'.request[1].caller,
                              call'.request[1].planId, call'.request[1].provider)
          /\ \/ call'.request[1].caller = ""
             \/ UserByEmail(call'.request[1].caller) = <<>>
             \/ Subscribed(call'.request[1].caller)
             \/ call'.request[1].planId \notin DOMAIN PAYMENT_PLANS \cup {NoPlan} )
        => /\ call'.delegated = 0
           /\ call'.session = NoSession
           /\ call'.routeStatus # 200 ]_vars

\* the account with an active subscription asked for a session of a one-time
\* plan and was refused
C38_SubscriberRefused ==
    /\ call.op = "create-checkout-session"
    /\ call.request[1].caller = "u1@mail"
    /\ call.request[1].planId = "credits_100"
    /\ Subscribed("u1@mail")
    /\ call.routeStatus = 400
    /\ call.error = "alreadySubscribed"
    /\ call.delegated = 0

\* C39: every payment that the verify-payment route reconciled is in the
\* ledger with the credits and the billing type that PAYMENT_PLANS gives for
\* the plan id verified, and the kind of the row follows that billing type.
C39_CreditFollowsPlan ==
    \A i \in 1..Len(activities) :
        /\ activities[i].metadata.planId \in DOMAIN PAYMENT_PLANS
        /\ activities[i].creditAmount =
               PAYMENT_PLANS[activities[i].metadata.planId].credits
        /\ activities[i].metadata.planType =
               PAYMENT_PLANS[activities[i].metadata.planId].type
        /\ activities[i].type = "subscription_activated"
               <=> PAYMENT_PLANS[activities[i].metadata.planId].type = "subscription"

\* a paid session of the plan pro was reconciled with the billing type
\* test_payment: its 800 credits were added to the one-time credits and no
\* subscription was activated
C39_ProAsTestPayment ==
    /\ ~env.stripePriceId
    /\ \E i \in 1..Len(activities) :
           /\ activities[i].userId = "u1"
           /\ activities[i].metadata.planId = "pro"
           /\ activities[i].metadata.planType = "test_payment"
           /\ activities[i].type = "credit_add"
           /\ activities[i].creditAmount = PRO_MONTHLY_CREDITS
    /\ users["u1"].credits = PRO_MONTHLY_CREDITS
    /\ users["u1"].subscriptionStatus = "none"

====
